---- MODULE Spec2Model ----
(***************************************************************************)
(* Verification model of the underwriting API: the streaming orchestrator  *)
(* (api/streaming_orchestrator.py), its three entry points (api/routes.py: *)
(* POST /process, POST /process/stream, WS /ws/{client_id}) and the Cosmos  *)
(* storage service (api/cosmos_storage.py).                                *)
(*                                                                         *)
(* A handler slot is one running request handler: an HTTP request or a     *)
(* WebSocket session.  The workflow generator of a slot advances one yield  *)
(* at a time (the Pull actions); the handler then stores it (Handle).     *)
(***************************************************************************)
EXTENDS Integers, Sequences, FiniteSets, TLC

\* ---------------------------------------------------------------- bounds
NumRequests == 2        \* handler slots (requests / sessions alive at once)
MaxFaults == 1          \* faults in one run: failed stages, failed store writes, lost clients
MaxEvents == 20         \* cap of the orchestrator's event counter
MaxMessages == 1        \* ping and unknown WebSocket messages received in one run

Requests == 1..NumRequests
ClientIds == {"c1"}
AppIds == {"APP001"}
None == "none"

\* ------------------------------------------------- orchestrator constants
\* AgentStatus values
ACTIVE == "active"
COMPLETED == "completed"
ERROR == "error"

\* StreamingOrchestrator.AGENT_WORKFLOW (agent_name column)
AGENT_WORKFLOW ==
    <<"MedicalReviewer", "FraudDetector", "RiskAssessor",
      "PremiumCalculator", "DecisionMaker">>

VARIABLES
    event_counter,       \* StreamingOrchestrator._event_counter (one orchestrator per process)
    store_available,     \* CosmosStorageService.is_available
    store,               \* documents in the Cosmos container
    entry,               \* entry point a slot is serving: none / process / stream / ws
    application_id,      \* applicationNumber of the slot's request
    gen,                 \* position of the slot's process_application_streaming generator
    events,              \* events the slot's generator has yielded in this workflow
    last_event_id,       \* counter part of the event_id of the workflow's latest event
    consumer,            \* position of the handler that iterates the generator
    collected,           \* number of events in the handler's collected_events / events list
    frames,              \* frames (SSE) or messages (WebSocket) delivered on the slot's connection
    response,            \* HTTP response of POST /process
    connected,           \* the slot's client is still connected
    client_id,           \* client_id path parameter of a WebSocket session
    active_connections,  \* ConnectionManager.active_connections: client_id -> slot
    faults,              \* faults so far: failed stages, failed store writes, lost clients
    workflow,            \* number of the slot's workflow (stands for the wf_<timestamp> id)
    workflows,           \* workflows started so far
    messages,            \* ping and unknown WebSocket messages received so far
    calc                 \* the call of a report, premium, loading or parser function under study

vars ==
    <<event_counter, store_available, store, entry, application_id, gen, events,
      last_event_id, consumer, collected, frames, response, connected, client_id,
      active_connections, faults, workflow, workflows, messages, calc>>

\* ------------------------------------------------------------- generator
\* An AgentEvent, reduced to the fields the claims read.
Event(name, status) == [agent_name |-> name, status |-> status]

NewGen == [pc |-> "new", i |-> 0]

Yield(pc, i, name, status) ==
    [kind |-> "yield", gen |-> [pc |-> pc, i |-> i], ev |-> Event(name, status)]

Raise == [kind |-> "raise", gen |-> [pc |-> "raised", i |-> 0], ev |-> Event("", "")]

Stop == [kind |-> "stop", gen |-> [pc |-> "finished", i |-> 0], ev |-> Event("", "")]

\* The positions at which resuming the generator runs a stage body that can fail.
HasBody(g) == g.pc \in {"ma_active", "rml_active", "agent_active", "rg_active"}

\* A loop that leaves AGENT_WORKFLOW after its first agent.
AfterAgentLeavesLoop(i) ==
    Yield("rg_active", 0, "ReportGenerator", ACTIVE)

\* What the next yield after an agent's exit event is: the next agent of
\* AGENT_WORKFLOW, or the report generator after the last one.
AfterAgent(i) ==
    IF i < Len(AGENT_WORKFLOW)
    THEN Yield("agent_active", i + 1, AGENT_WORKFLOW[i + 1], ACTIVE)
    ELSE Yield("rg_active", 0, "ReportGenerator", ACTIVE)

\* An agent failure that is re-raised like the failures of the other stages.
AfterAgentErrorRaises(i) == Raise

\* A failed agent that is called again instead of being left behind.
AfterAgentErrorRetries(i) ==
    Yield("agent_active", i, AGENT_WORKFLOW[i], ACTIVE)

\* After an agent's ERROR event the loop goes on to the next agent.
AfterAgentError(i) == AfterAgent(i)

\* One __anext__ of process_application_streaming from the yield g.pc, where ok
\* says whether the stage body run by this resume succeeds.
Step(g, ok) ==
    CASE g.pc = "new" -> Yield("start", 0, "System", ACTIVE)
      [] g.pc = "start" -> Yield("ma_active", 0, "MedicalAnalyzer", ACTIVE)
      [] g.pc = "ma_active" ->
            IF ok THEN Yield("ma_completed", 0, "MedicalAnalyzer", COMPLETED)
                  ELSE Yield("ma_error", 0, "MedicalAnalyzer", ERROR)
      [] g.pc = "ma_error" -> Raise
      [] g.pc = "ma_completed" -> Yield("rml_active", 0, "RiskAssessmentML", ACTIVE)
      [] g.pc = "rml_active" ->
            IF ok THEN Yield("rml_completed", 0, "RiskAssessmentML", COMPLETED)
                  ELSE Yield("rml_error", 0, "RiskAssessmentML", ERROR)
      [] g.pc = "rml_error" -> Raise
      [] g.pc = "rml_completed" -> Yield("agent_active", 1, AGENT_WORKFLOW[1], ACTIVE)
      [] g.pc = "agent_active" ->
            IF ok THEN Yield("agent_completed", g.i, AGENT_WORKFLOW[g.i], COMPLETED)
                  ELSE Yield("agent_error", g.i, AGENT_WORKFLOW[g.i], ERROR)
      [] g.pc = "agent_completed" -> AfterAgent(g.i)
      [] g.pc = "agent_error" -> AfterAgentError(g.i)
      [] g.pc = "rg_active" ->
            IF ok THEN Yield("rg_completed", 0, "ReportGenerator", COMPLETED)
                  ELSE Yield("rg_error", 0, "ReportGenerator", ERROR)
      [] g.pc = "rg_completed" -> Yield("done", 0, "System", COMPLETED)
      [] g.pc = "rg_error" -> Raise
      [] g.pc = "done" -> Stop
      [] OTHER -> Stop

\* An id generator that forgets to advance the counter.
GenerateEventIdKeepsCounter(counter) == counter

\* _generate_event_id: the counter after the increment, which is the counter
\* part of the new event_id.
GenerateEventId(counter) == counter + 1

\* ------------------------------------------------------------------ store
AgentResultDoc(app, wf, ev) ==
    [document_type |-> "agent_result", application_id |-> app, workflow |-> wf,
     agent_name |-> ev.agent_name, status |-> ev.status, n_events |-> 0,
     agent_outputs |-> {}, final_decision |-> FALSE]

WorkflowResultDoc(app, wf, result) ==
    [document_type |-> "workflow_result", application_id |-> app, workflow |-> wf,
     agent_name |-> "", status |-> result.status, n_events |-> result.n_events,
     agent_outputs |-> result.agent_outputs, final_decision |-> result.final_decision]

\* container.create_item inside store_workflow_result / store_agent_result: the
\* document is added, or the call raises and the method swallows the error.
CreateItem(docs, doc, ok) == IF ok THEN docs \cup {doc} ELSE docs

\* _extract_agent_outputs: the agent_name of every completed event that carries
\* an analysis (the System events carry none).
ExtractAgentOutputs(evs) ==
    {evs[k].agent_name : k \in {j \in DOMAIN evs :
        evs[j].status = COMPLETED /\ evs[j].agent_name # "System"}}

\* final_report of process_application: metadata of the completed ReportGenerator event.
FinalReport(evs) ==
    \E k \in DOMAIN evs : evs[k] = Event("ReportGenerator", COMPLETED)

\* The dictionary process_application returns.
ProcessResult(evs) ==
    [status |-> "completed", n_events |-> Len(evs),
     agent_outputs |-> ExtractAgentOutputs(evs), final_decision |-> FinalReport(evs)]

\* The workflow_result the streaming and WebSocket handlers build themselves.
StreamResult(n) ==
    [status |-> "completed", n_events |-> n, agent_outputs |-> {},
     final_decision |-> FALSE]

\* ----------------------------------------------------------------- frames
EventFrame(ev) == [type |-> "event", agent_name |-> ev.agent_name, status |-> ev.status]
TypeFrame(t) == [type |-> t, agent_name |-> "", status |-> ""]

NoResponse == [status |-> 0, n_events |-> 0, agent_outputs |-> {}, final_decision |-> FALSE]

\* No function call is under study.
NoCalc == [fn |-> None]

\* ------------------------------------------------------------------- Init
\* The state of a freshly started server process, f faults already spent.
Server(f) ==
    /\ event_counter = 0
    /\ store_available \in BOOLEAN
    /\ store = {}
    /\ entry = [r \in Requests |-> None]
    /\ application_id = [r \in Requests |-> None]
    /\ gen = [r \in Requests |-> NewGen]
    /\ events = [r \in Requests |-> <<>>]
    /\ last_event_id = [r \in Requests |-> 0]
    /\ consumer = [r \in Requests |-> "free"]
    /\ collected = [r \in Requests |-> 0]
    /\ frames = [r \in Requests |-> <<>>]
    /\ response = [r \in Requests |-> NoResponse]
    /\ connected = [r \in Requests |-> FALSE]
    /\ client_id = [r \in Requests |-> None]
    /\ active_connections = [c \in ClientIds |-> 0]
    /\ faults = f
    /\ workflow = [r \in Requests |-> 0]
    /\ workflows = 0
    /\ messages = 0

Start(f) == Server(f) /\ calc = NoCalc

Init == Start(0)

\* ---------------------------------------------------------------- helpers
\* Outcomes of the stage body a resume runs: it can fail only where there is one.
Outcomes(g) ==
    IF HasBody(g) /\ faults < MaxFaults THEN BOOLEAN ELSE {TRUE}

\* Outcomes of one store write.
WriteOutcomes == IF faults < MaxFaults THEN BOOLEAN ELSE {TRUE}

\* A workflow is being iterated by the slot's handler.
InFlight(r) == consumer[r] \in {"pull", "handle"}

NoWorkflowInFlight == \A q \in Requests : ~InFlight(q)

\* The slot a new request or connection takes: the lowest free one.
FreeSlot(r) ==
    /\ entry[r] = None
    /\ \A q \in Requests : q < r => entry[q] # None

\* ConnectionManager.disconnect
Disconnect(conns, cid) == [conns EXCEPT ![cid] = 0]

\* The handler calls process_application_streaming(...): a fresh generator.
BeginWorkflow(r, app) ==
    /\ event_counter < MaxEvents
    /\ workflows' = workflows + 1
    /\ workflow' = [workflow EXCEPT ![r] = workflows + 1]
    /\ application_id' = [application_id EXCEPT ![r] = app]
    /\ gen' = [gen EXCEPT ![r] = NewGen]
    /\ events' = [events EXCEPT ![r] = <<>>]
    /\ last_event_id' = [last_event_id EXCEPT ![r] = 0]
    /\ collected' = [collected EXCEPT ![r] = 0]
    /\ consumer' = [consumer EXCEPT ![r] = "pull"]

\* The generator of slot r yields the event of step s: _create_event draws the
\* event id from the orchestrator's counter.
Emit(r, s, ok) ==
    /\ event_counter < MaxEvents
    /\ event_counter' = GenerateEventId(event_counter)
    /\ last_event_id' = [last_event_id EXCEPT ![r] = GenerateEventId(event_counter)]
    /\ events' = [events EXCEPT ![r] = Append(@, s.ev)]
    /\ gen' = [gen EXCEPT ![r] = s.gen]
    /\ faults' = IF ok THEN faults ELSE faults + 1

\* ---------------------------------------------------------- POST /process
\* A route that lets a result it could not store become an HTTP 500.
ProcessResponseNeedsStore(result, stored) ==
    IF stored
    THEN [status |-> 200, n_events |-> result.n_events,
          agent_outputs |-> result.agent_outputs,
          final_decision |-> result.final_decision]
    ELSE [NoResponse EXCEPT !.status = 500]

\* The response of the route once process_application returned result; stored
\* says whether the result was written to the store.
ProcessResponse(result, stored) ==
    [status |-> 200, n_events |-> result.n_events,
     agent_outputs |-> result.agent_outputs,
     final_decision |-> result.final_decision]

ArriveProcess(r) ==
    /\ FreeSlot(r)
    /\ \E app \in AppIds : BeginWorkflow(r, app)
    /\ entry' = [entry EXCEPT ![r] = "process"]
    /\ connected' = [connected EXCEPT ![r] = TRUE]
    /\ UNCHANGED <<calc, event_counter, store_available, store, frames, response,
                   client_id, active_connections, faults, messages>>

\* process_application (orchestrator): the collector appends the next event.
ProcessPullEvent(r) ==
    /\ entry[r] = "process" /\ consumer[r] = "pull"
    /\ \E ok \in Outcomes(gen[r]) :
        LET s == Step(gen[r], ok) IN
        /\ s.kind = "yield"
        /\ Emit(r, s, ok)
    /\ collected' = [collected EXCEPT ![r] = @ + 1]
    /\ UNCHANGED <<calc, store_available, store, entry, application_id, consumer, frames,
                   response, connected, client_id, active_connections, workflow, workflows, messages>>

\* The generator finished: the route stores the result when the store is
\* available and answers 200 with the result.
ProcessPullStop(r) ==
    /\ entry[r] = "process" /\ consumer[r] = "pull"
    /\ Step(gen[r], TRUE).kind = "stop"
    /\ gen' = [gen EXCEPT ![r] = Stop.gen]
    /\ LET result == ProcessResult(events[r]) IN
        \E ok \in WriteOutcomes :
            /\ store' = IF store_available
                        THEN CreateItem(store,
                                 WorkflowResultDoc(application_id[r], workflow[r], result), ok)
                        ELSE store
            /\ faults' = IF ok THEN faults ELSE faults + 1
            /\ (~store_available => ok)
            /\ response' = [response EXCEPT ![r] =
                    ProcessResponse(result, store_available /\ ok)]
    /\ consumer' = [consumer EXCEPT ![r] = "done"]
    /\ UNCHANGED <<calc, event_counter, store_available, entry, application_id, events,
                   last_event_id, collected, frames, connected, client_id,
                   active_connections, workflow, workflows, messages>>

\* The generator raised: the route answers 500.
ProcessPullRaise(r) ==
    /\ entry[r] = "process" /\ consumer[r] = "pull"
    /\ Step(gen[r], TRUE).kind = "raise"
    /\ gen' = [gen EXCEPT ![r] = Raise.gen]
    /\ response' = [response EXCEPT ![r] = [NoResponse EXCEPT !.status = 500]]
    /\ consumer' = [consumer EXCEPT ![r] = "done"]
    /\ UNCHANGED <<calc, event_counter, store_available, store, entry, application_id,
                   events, last_event_id, collected, frames, connected, client_id,
                   active_connections, faults, workflow, workflows, messages>>

\* --------------------------------------------------- POST /process/stream
ArriveStream(r) ==
    /\ FreeSlot(r)
    /\ \E app \in AppIds : BeginWorkflow(r, app)
    /\ entry' = [entry EXCEPT ![r] = "stream"]
    /\ connected' = [connected EXCEPT ![r] = TRUE]
    /\ frames' = [frames EXCEPT ![r] = <<>>]
    /\ UNCHANGED <<calc, event_counter, store_available, store, response, client_id,
                   active_connections, faults, messages>>

\* event_generator: the next event is formatted and yielded as an SSE frame.
StreamPullEvent(r) ==
    /\ entry[r] = "stream" /\ consumer[r] = "pull"
    /\ \E ok \in Outcomes(gen[r]) :
        LET s == Step(gen[r], ok) IN
        /\ s.kind = "yield"
        /\ Emit(r, s, ok)
        /\ frames' = [frames EXCEPT ![r] = Append(@, EventFrame(s.ev))]
    /\ consumer' = [consumer EXCEPT ![r] = "handle"]
    /\ UNCHANGED <<calc, store_available, store, entry, application_id, collected,
                   response, connected, client_id, active_connections, workflow, workflows, messages>>

\* After the frame: a completed event is stored as an agent_result when the
\* store is available, and the event joins collected_events.
StreamHandle(r) ==
    /\ entry[r] = "stream" /\ consumer[r] = "handle"
    /\ LET ev == events[r][Len(events[r])]
           writes == store_available /\ ev.status = COMPLETED IN
        \E ok \in WriteOutcomes :
            /\ (~writes => ok)
            /\ store' = IF writes
                        THEN CreateItem(store,
                                 AgentResultDoc(application_id[r], workflow[r], ev), ok)
                        ELSE store
            /\ faults' = IF ok THEN faults ELSE faults + 1
    /\ collected' = [collected EXCEPT ![r] = @ + 1]
    /\ consumer' = [consumer EXCEPT ![r] = "pull"]
    /\ UNCHANGED <<calc, event_counter, store_available, entry, application_id, gen,
                   events, last_event_id, frames, response, connected, client_id,
                   active_connections, workflow, workflows, messages>>

\* The generator finished: the workflow result is stored, then the 'complete'
\* frame is yielded.
StreamPullStop(r) ==
    /\ entry[r] = "stream" /\ consumer[r] = "pull"
    /\ Step(gen[r], TRUE).kind = "stop"
    /\ gen' = [gen EXCEPT ![r] = Stop.gen]
    /\ LET writes == store_available /\ collected[r] > 0 IN
        \E ok \in WriteOutcomes :
            /\ (~writes => ok)
            /\ store' = IF writes
                        THEN CreateItem(store,
                                 WorkflowResultDoc(application_id[r], workflow[r],
                                                   StreamResult(collected[r])), ok)
                        ELSE store
            /\ faults' = IF ok THEN faults ELSE faults + 1
    /\ frames' = [frames EXCEPT ![r] = Append(@, TypeFrame("complete"))]
    /\ consumer' = [consumer EXCEPT ![r] = "done"]
    /\ UNCHANGED <<calc, event_counter, store_available, entry, application_id, events,
                   last_event_id, collected, response, connected, client_id,
                   active_connections, workflow, workflows, messages>>

\* A handler that sends the 'complete' frame from a finally clause, after the
\* 'error' frame too.
StreamPullRaiseThenComplete(r) ==
    /\ entry[r] = "stream" /\ consumer[r] = "pull"
    /\ Step(gen[r], TRUE).kind = "raise"
    /\ gen' = [gen EXCEPT ![r] = Raise.gen]
    /\ frames' = [frames EXCEPT ![r] = @ \o <<TypeFrame("error"), TypeFrame("complete")>>]
    /\ consumer' = [consumer EXCEPT ![r] = "done"]
    /\ UNCHANGED <<calc, event_counter, store_available, store, entry, application_id,
                   events, last_event_id, collected, response, connected, client_id,
                   active_connections, faults, workflow, workflows, messages>>

\* The generator raised: the 'error' frame is yielded.
StreamPullRaise(r) ==
    /\ entry[r] = "stream" /\ consumer[r] = "pull"
    /\ Step(gen[r], TRUE).kind = "raise"
    /\ gen' = [gen EXCEPT ![r] = Raise.gen]
    /\ frames' = [frames EXCEPT ![r] = Append(@, TypeFrame("error"))]
    /\ consumer' = [consumer EXCEPT ![r] = "done"]
    /\ UNCHANGED <<calc, event_counter, store_available, store, entry, application_id,
                   events, last_event_id, collected, response, connected, client_id,
                   active_connections, faults, workflow, workflows, messages>>

\* The handler of a streaming response is suspended: at the yield of a frame, or
\* in the generator at an agent call or at the sleep that follows an agent.
StreamSuspended(r) ==
    \/ consumer[r] = "handle"
    \/ consumer[r] = "pull" /\ gen[r].pc \in {"agent_active", "agent_completed"}

\* The SSE client goes away: the server cancels the response task at its
\* current await, which closes event_generator and the workflow generator in it.
StreamClientDisconnect(r) ==
    /\ entry[r] = "stream" /\ StreamSuspended(r) /\ connected[r]
    /\ faults < MaxFaults
    /\ faults' = faults + 1
    /\ connected' = [connected EXCEPT ![r] = FALSE]
    /\ gen' = [gen EXCEPT ![r] = [pc |-> "closed", i |-> 0]]
    /\ consumer' = [consumer EXCEPT ![r] = "aborted"]
    /\ UNCHANGED <<calc, event_counter, store_available, store, entry, application_id,
                   events, last_event_id, collected, frames, response, client_id,
                   active_connections, workflow, workflows, messages>>

\* ------------------------------------------------------ WS /ws/{client_id}
\* connection_manager.connect: accept, then register the socket under client_id.
WsConnect(r, cid) ==
    /\ FreeSlot(r)
    /\ entry' = [entry EXCEPT ![r] = "ws"]
    /\ client_id' = [client_id EXCEPT ![r] = cid]
    /\ active_connections' = [active_connections EXCEPT ![cid] = r]
    /\ connected' = [connected EXCEPT ![r] = TRUE]
    /\ frames' = [frames EXCEPT ![r] = <<>>]
    /\ consumer' = [consumer EXCEPT ![r] = "receive"]
    /\ UNCHANGED <<calc, event_counter, store_available, store, application_id, gen,
                   events, last_event_id, collected, response, faults, workflow,
                   workflows, messages>>

\* The handler of session r ends in one of its except clauses.
WsClose(r) ==
    /\ active_connections' = Disconnect(active_connections, client_id[r])
    /\ consumer' = [consumer EXCEPT ![r] = "closed"]

\* receive_json returns {action: "process", ...}.
WsReceiveProcess(r) ==
    /\ entry[r] = "ws" /\ consumer[r] = "receive" /\ connected[r]
    /\ \E app \in AppIds : BeginWorkflow(r, app)
    /\ UNCHANGED <<calc, event_counter, store_available, store, entry, frames, response,
                   connected, client_id, active_connections, faults, messages>>

\* receive_json returns {action: "ping"}: the handler answers pong.
WsReceivePing(r) ==
    /\ entry[r] = "ws" /\ consumer[r] = "receive" /\ connected[r]
    /\ messages < MaxMessages
    /\ messages' = messages + 1
    /\ frames' = [frames EXCEPT ![r] = Append(@, TypeFrame("pong"))]
    /\ UNCHANGED <<calc, event_counter, store_available, store, entry, application_id,
                   gen, events, last_event_id, consumer, collected, response,
                   connected, client_id, active_connections, faults, workflow,
                   workflows>>

\* receive_json returns any other action: the handler answers an error message.
WsReceiveUnknown(r) ==
    /\ entry[r] = "ws" /\ consumer[r] = "receive" /\ connected[r]
    /\ messages < MaxMessages
    /\ messages' = messages + 1
    /\ frames' = [frames EXCEPT ![r] = Append(@, TypeFrame("error"))]
    /\ UNCHANGED <<calc, event_counter, store_available, store, entry, application_id,
                   gen, events, last_event_id, consumer, collected, response,
                   connected, client_id, active_connections, faults, workflow,
                   workflows>>

\* receive_json raises WebSocketDisconnect.
WsReceiveDisconnected(r) ==
    /\ entry[r] = "ws" /\ consumer[r] = "receive" /\ ~connected[r]
    /\ WsClose(r)
    /\ UNCHANGED <<calc, event_counter, store_available, store, entry, application_id,
                   gen, events, last_event_id, collected, frames, response,
                   connected, client_id, faults, workflow, workflows, messages>>

\* The next event is passed to connection_manager.send_event(client_id, event):
\* it goes to the socket registered under client_id, if any; a send on a socket
\* whose client is gone raises, which ends the handler.
WsPullEvent(r) ==
    /\ entry[r] = "ws" /\ consumer[r] = "pull"
    /\ \E ok \in Outcomes(gen[r]) :
        LET s == Step(gen[r], ok)
            target == active_connections[client_id[r]] IN
        /\ s.kind = "yield"
        /\ Emit(r, s, ok)
        /\ IF target = 0
           THEN /\ consumer' = [consumer EXCEPT ![r] = "handle"]
                /\ collected' = [collected EXCEPT ![r] = @ + 1]
                /\ UNCHANGED <<frames, active_connections>>
           ELSE IF connected[target]
           THEN /\ frames' = [frames EXCEPT ![target] = Append(@, EventFrame(s.ev))]
                /\ consumer' = [consumer EXCEPT ![r] = "handle"]
                /\ collected' = [collected EXCEPT ![r] = @ + 1]
                /\ UNCHANGED active_connections
           ELSE /\ WsClose(r)
                /\ UNCHANGED <<frames, collected>>
    /\ UNCHANGED <<calc, store_available, store, entry, application_id, response,
                   connected, client_id, workflow, workflows, messages>>

\* After the send: a completed event is stored as an agent_result.
WsHandle(r) ==
    /\ entry[r] = "ws" /\ consumer[r] = "handle"
    /\ LET ev == events[r][Len(events[r])]
           writes == store_available /\ ev.status = COMPLETED IN
        \E ok \in WriteOutcomes :
            /\ (~writes => ok)
            /\ store' = IF writes
                        THEN CreateItem(store,
                                 AgentResultDoc(application_id[r], workflow[r], ev), ok)
                        ELSE store
            /\ faults' = IF ok THEN faults ELSE faults + 1
    /\ consumer' = [consumer EXCEPT ![r] = "pull"]
    /\ UNCHANGED <<calc, event_counter, store_available, entry, application_id, gen,
                   events, last_event_id, collected, frames, response, connected,
                   client_id, active_connections, workflow, workflows, messages>>

\* The generator finished: the workflow result is stored, then workflow_complete
\* is sent on the session's own socket and the handler waits for the next message.
WsPullStop(r) ==
    /\ entry[r] = "ws" /\ consumer[r] = "pull"
    /\ Step(gen[r], TRUE).kind = "stop"
    /\ gen' = [gen EXCEPT ![r] = Stop.gen]
    /\ LET writes == store_available /\ collected[r] > 0 IN
        \E ok \in WriteOutcomes :
            /\ (~writes => ok)
            /\ store' = IF writes
                        THEN CreateItem(store,
                                 WorkflowResultDoc(application_id[r], workflow[r],
                                                   StreamResult(collected[r])), ok)
                        ELSE store
            /\ faults' = IF ok THEN faults ELSE faults + 1
    /\ IF connected[r]
       THEN /\ frames' = [frames EXCEPT ![r] = Append(@, TypeFrame("workflow_complete"))]
            /\ consumer' = [consumer EXCEPT ![r] = "receive"]
            /\ UNCHANGED active_connections
       ELSE /\ WsClose(r)
            /\ UNCHANGED frames
    /\ UNCHANGED <<calc, event_counter, store_available, entry, application_id, events,
                   last_event_id, collected, response, connected, client_id, workflow, workflows, messages>>

\* The generator raised: the exception leaves the receive loop and the handler
\* ends in `except Exception`, which only unregisters the client.
WsPullRaise(r) ==
    /\ entry[r] = "ws" /\ consumer[r] = "pull"
    /\ Step(gen[r], TRUE).kind = "raise"
    /\ gen' = [gen EXCEPT ![r] = Raise.gen]
    /\ WsClose(r)
    /\ UNCHANGED <<calc, event_counter, store_available, store, entry, application_id,
                   events, last_event_id, collected, frames, response, connected,
                   client_id, faults, workflow, workflows, messages>>

\* The WebSocket client goes away; the handler notices at its next send or
\* receive, so the moment is taken just before one of them.
WsClientDisconnect(r) ==
    /\ entry[r] = "ws" /\ connected[r]
    /\ consumer[r] \in {"receive", "pull"}
    /\ faults < MaxFaults
    /\ faults' = faults + 1
    /\ connected' = [connected EXCEPT ![r] = FALSE]
    /\ UNCHANGED <<calc, event_counter, store_available, store, entry, application_id,
                   gen, events, last_event_id, consumer, collected, frames,
                   response, client_id, active_connections, workflow, workflows, messages>>

\* ------------------------------------------------------------ end of slot
\* The handler has returned: its locals are gone and the slot is free again.
Release(r) ==
    /\ consumer[r] \in {"done", "closed", "aborted"}
    /\ entry' = [entry EXCEPT ![r] = None]
    /\ application_id' = [application_id EXCEPT ![r] = None]
    /\ gen' = [gen EXCEPT ![r] = NewGen]
    /\ events' = [events EXCEPT ![r] = <<>>]
    /\ last_event_id' = [last_event_id EXCEPT ![r] = 0]
    /\ consumer' = [consumer EXCEPT ![r] = "free"]
    /\ collected' = [collected EXCEPT ![r] = 0]
    /\ frames' = [frames EXCEPT ![r] = <<>>]
    /\ response' = [response EXCEPT ![r] = NoResponse]
    /\ connected' = [connected EXCEPT ![r] = FALSE]
    /\ client_id' = [client_id EXCEPT ![r] = None]
    /\ workflow' = [workflow EXCEPT ![r] = 0]
    /\ UNCHANGED <<calc, event_counter, store_available, store, active_connections,
                   faults, workflows, messages>>

\* ------------------------------------------------------------------- Next
NoHandlerAlive == \A q \in Requests : entry[q] = None

\* The steps of the handler in slot r, whatever its entry point.
HandlerStep(r) ==
    \/ ProcessPullEvent(r) \/ ProcessPullStop(r) \/ ProcessPullRaise(r)
    \/ StreamPullEvent(r) \/ StreamHandle(r) \/ StreamPullStop(r)
    \/ StreamPullRaise(r) \/ StreamClientDisconnect(r)
    \/ WsReceiveProcess(r) \/ WsReceivePing(r) \/ WsReceiveUnknown(r)
    \/ WsReceiveDisconnected(r)
    \/ WsPullEvent(r) \/ WsHandle(r) \/ WsPullStop(r) \/ WsPullRaise(r)
    \/ WsClientDisconnect(r)
    \/ Release(r)

\* Requests and connections served one after another: a handler starts only
\* when no other handler is alive.
Next ==
    \E r \in Requests :
        \/ NoHandlerAlive /\ ArriveProcess(r)
        \/ NoHandlerAlive /\ ArriveStream(r)
        \/ NoHandlerAlive /\ (\E cid \in ClientIds : WsConnect(r, cid))
        \/ HandlerStep(r)

Spec == Init /\ [][Next]_vars

\* Requests served concurrently on the one orchestrator: HTTP handlers start
\* while others are in flight, and their steps interleave at every await of the
\* workflow generator.  These runs are fault-free: the fault budget starts spent.
InitConc == Start(MaxFaults)

NextConc ==
    \E r \in Requests :
        \/ ArriveProcess(r)
        \/ ArriveStream(r)
        \/ ProcessPullEvent(r) \/ ProcessPullStop(r)
        \/ StreamPullEvent(r) \/ StreamHandle(r) \/ StreamPullStop(r)
        \/ Release(r)

SpecConc == InitConc /\ [][NextConc]_vars

\* WebSocket sessions alive at once on the one connection manager: connections
\* are accepted, lose their client and end while another session's workflow
\* runs; one workflow is iterated at a time.
InitWs == Start(0)

NextWs ==
    \E r \in Requests :
        \/ \E cid \in ClientIds : WsConnect(r, cid)
        \/ NoWorkflowInFlight /\ WsReceiveProcess(r)
        \/ WsReceiveDisconnected(r)
        \/ WsPullEvent(r) \/ WsHandle(r) \/ WsPullStop(r) \/ WsPullRaise(r)
        \/ WsClientDisconnect(r)
        \/ Release(r)

SpecWs == InitWs /\ [][NextWs]_vars

\* ------------------------------------------------- GET /reports/{appId}
MaxReports == 3         \* comprehensive reports written in one run

\* Application ids of the report requests.
ReportAppIds == {"APP001", "APP002"}

\* The document store_report builds: created_at orders the reports of an
\* application, workflow is 0 (no handler writes one).
ReportDoc(app, created_at) ==
    [document_type |-> "comprehensive_report", application_id |-> app,
     workflow |-> 0, created_at |-> created_at]

IsReportOf(d, app) ==
    d.document_type = "comprehensive_report" /\ d.application_id = app

\* ORDER BY c.created_at DESC
RECURSIVE OrderByCreatedAtDesc(_)
OrderByCreatedAtDesc(docs) ==
    IF docs = {} THEN <<>>
    ELSE LET d == CHOOSE x \in docs : \A y \in docs : y.created_at <= x.created_at
         IN <<d>> \o OrderByCreatedAtDesc(docs \ {d})

\* get_reports_by_application: the reports of app, most recent first; the empty
\* list when the store is unavailable or the query raises.
GetReportsByApplication(app, ok) ==
    IF store_available /\ ok
    THEN OrderByCreatedAtDesc({d \in store : IsReportOf(d, app)})
    ELSE <<>>

ReportResponse(status, report) == [status |-> status, report |-> report]

\* get_reports_for_application, given the list the store returned.
ReportsResponse(reports) ==
    IF ~store_available THEN ReportResponse(503, None)
    ELSE IF reports = <<>> THEN ReportResponse(404, None)
    ELSE ReportResponse(200, reports[1])

\* store_report, called with the report of app: the document is created with the
\* current time, or the call fails and returns None.
StoreReport(app) ==
    /\ Cardinality(store) < MaxReports
    /\ \E ok \in WriteOutcomes :
        /\ store' = IF store_available
                    THEN CreateItem(store, ReportDoc(app, Cardinality(store) + 1), ok)
                    ELSE store
        /\ (~store_available => ok)
        /\ store' # store \/ ~ok
        /\ faults' = IF ok THEN faults ELSE faults + 1
    /\ UNCHANGED <<calc, event_counter, store_available, entry, application_id, gen,
                   events, last_event_id, consumer, collected, frames, response,
                   connected, client_id, active_connections, workflow, workflows,
                   messages>>

\* GET /reports/{application_id}: the handler answers in one step.
GetReports(r, app) ==
    /\ FreeSlot(r)
    /\ \E ok \in WriteOutcomes :
        /\ (~store_available => ok)
        /\ response' = [response EXCEPT ![r] =
                ReportsResponse(GetReportsByApplication(app, ok))]
        /\ faults' = IF ok THEN faults ELSE faults + 1
    /\ entry' = [entry EXCEPT ![r] = "reports"]
    /\ application_id' = [application_id EXCEPT ![r] = app]
    /\ consumer' = [consumer EXCEPT ![r] = "done"]
    /\ UNCHANGED <<calc, event_counter, store_available, store, gen, events,
                   last_event_id, collected, frames, connected, client_id,
                   active_connections, workflow, workflows, messages>>

\* Reports are written to the store and read back through the API.
NextReports ==
    \/ \E app \in ReportAppIds : StoreReport(app)
    \/ \E r \in Requests : \E app \in ReportAppIds : GetReports(r, app)
    \/ \E r \in Requests : Release(r)

SpecReports == Init /\ [][NextReports]_vars

\* ------------------------------------------------- AgentResponseParser
\* Texts are sequences of characters, so that `pattern in text` is the
\* substring test of the code.
Contains(text, pattern) ==
    \E i \in 1..(Len(text) - Len(pattern) + 1) :
        SubSeq(text, i, i + Len(pattern) - 1) = pattern

\* any(pattern in text for pattern in patterns)
ContainsAny(text, patterns) == \E p \in patterns : Contains(text, p)

\* str.upper(), on the lower-case letters the texts use.
UpperCase ==
    {<<"a", "A">>, <<"b", "B">>, <<"c", "C">>, <<"d", "D">>, <<"e", "E">>,
     <<"f", "F">>, <<"g", "G">>, <<"h", "H">>, <<"i", "I">>, <<"j", "J">>,
     <<"k", "K">>, <<"l", "L">>, <<"m", "M">>, <<"n", "N">>, <<"o", "O">>,
     <<"p", "P">>, <<"q", "Q">>, <<"r", "R">>, <<"s", "S">>, <<"t", "T">>,
     <<"u", "U">>, <<"v", "V">>, <<"w", "W">>, <<"x", "X">>, <<"y", "Y">>,
     <<"z", "Z">>}

UpperChar(c) ==
    IF \E m \in UpperCase : m[1] = c
    THEN (CHOOSE m \in UpperCase : m[1] = c)[2]
    ELSE c

Upper(text) == [i \in 1..Len(text) |-> UpperChar(text[i])]

\* extract_decision_from_text: the pattern lists, in the order of its branches.
APPROVAL_PATTERNS ==
    {<<"A", "P", "P", "R", "O", "V", "E", "D", " ", "W", "I", "T", "H", " ", "C", "O", "N", "D", "I", "T", "I", "O", "N", "S">>,
     <<"A", "P", "P", "R", "O", "V", "E", "D", " ", "W", "I", "T", "H">>,
     <<"A", "P", "P", "R", "O", "V", "E", "D">>,
     <<"A", "C", "C", "E", "P", "T">>,
     <<"C", "O", "V", "E", "R", "A", "G", "E", " ", "G", "R", "A", "N", "T", "E", "D">>}

\* An approval that names conditions or exclusions.
CONDITIONAL_PATTERNS ==
    {<<"A", "P", "P", "R", "O", "V", "E", "D", " ", "W", "I", "T", "H", " ", "C", "O", "N", "D", "I", "T", "I", "O", "N", "S">>,
     <<"C", "O", "N", "D", "I", "T", "I", "O", "N", "S">>,
     <<"E", "X", "C", "L", "U", "S", "I", "O", "N", "S">>,
     <<"A", "D", "D", "I", "T", "I", "O", "N", "A", "L", " ", "R", "E", "Q", "U", "I", "R", "E", "M", "E", "N", "T", "S">>}

\* An approval that asks for a manual review.
APPROVAL_REVIEW_PATTERNS ==
    {<<"M", "A", "N", "U", "A", "L", " ", "R", "E", "V", "I", "E", "W">>,
     <<"M", "O", "D", "E", "R", "A", "T", "E", " ", "P", "R", "E", "M", "I", "U", "M", " ", "L", "O", "A", "D", "I", "N", "G">>}

\* Manual review without an approval.
MANUAL_REVIEW_PATTERNS ==
    {<<"M", "A", "N", "U", "A", "L", " ", "R", "E", "V", "I", "E", "W">>,
     <<"M", "A", "N", "U", "A", "L", "_", "R", "E", "V", "I", "E", "W">>,
     <<"R", "E", "Q", "U", "I", "R", "E", "S", " ", "M", "A", "N", "U", "A", "L">>,
     <<"M", "A", "N", "U", "A", "L", " ", "U", "N", "D", "E", "R", "W", "R", "I", "T", "I", "N", "G">>}

\* Additional requirements without an approval.
ADDITIONAL_PATTERNS ==
    {<<"A", "D", "D", "I", "T", "I", "O", "N", "A", "L", " ", "R", "E", "Q", "U", "I", "R", "E", "M", "E", "N", "T", "S">>,
     <<"M", "O", "R", "E", " ", "I", "N", "F", "O", "R", "M", "A", "T", "I", "O", "N">>,
     <<"F", "U", "R", "T", "H", "E", "R", " ", "T", "E", "S", "T", "I", "N", "G">>,
     <<"A", "D", "D", "I", "T", "I", "O", "N", "A", "L", " ", "M", "E", "D", "I", "C", "A", "L">>}

\* The decline keywords.
DECLINE_PATTERNS ==
    {<<"D", "E", "C", "L", "I", "N", "E">>,
     <<"D", "E", "C", "L", "I", "N", "E", "D">>,
     <<"R", "E", "J", "E", "C", "T">>,
     <<"U", "N", "A", "C", "C", "E", "P", "T", "A", "B", "L", "E">>,
     <<"D", "E", "N", "Y">>}

\* Decision-Maker texts: ""; "APPROVED"; "Approved with conditions"; "ACCEPT AT STANDARD RATES"; "MANUAL REVIEW"; "ADDITIONAL REQUIREMENTS"; "DECLINE"; "Declined"; "REJECT"; "RISK IS UNACCEPTABLE"; "UNACCEPTABLE"; "DENY"; "Analysis failed"
DecisionTexts ==
    {<<>>,
     <<"A", "P", "P", "R", "O", "V", "E", "D">>,
     <<"A", "p", "p", "r", "o", "v", "e", "d", " ", "w", "i", "t", "h", " ", "c", "o", "n", "d", "i", "t", "i", "o", "n", "s">>,
     <<"A", "C", "C", "E", "P", "T", " ", "A", "T", " ", "S", "T", "A", "N", "D", "A", "R", "D", " ", "R", "A", "T", "E", "S">>,
     <<"M", "A", "N", "U", "A", "L", " ", "R", "E", "V", "I", "E", "W">>,
     <<"A", "D", "D", "I", "T", "I", "O", "N", "A", "L", " ", "R", "E", "Q", "U", "I", "R", "E", "M", "E", "N", "T", "S">>,
     <<"D", "E", "C", "L", "I", "N", "E">>,
     <<"D", "e", "c", "l", "i", "n", "e", "d">>,
     <<"R", "E", "J", "E", "C", "T">>,
     <<"R", "I", "S", "K", " ", "I", "S", " ", "U", "N", "A", "C", "C", "E", "P", "T", "A", "B", "L", "E">>,
     <<"U", "N", "A", "C", "C", "E", "P", "T", "A", "B", "L", "E">>,
     <<"D", "E", "N", "Y">>,
     <<"A", "n", "a", "l", "y", "s", "i", "s", " ", "f", "a", "i", "l", "e", "d">>}

\* UnderwritingDecision values
AUTO_APPROVED == "auto_approved"
MANUAL_REVIEW == "manual_review"
ADDITIONAL_REQUIREMENTS == "additional_requirements"
DECLINED == "declined"

\* The decision and the decision_details a branch of extract_decision_from_text sets.
Decided(decision, type, days, premium_info) ==
    [decision |-> decision,
     details |-> [decision_type |-> type, processing_time_days |-> days,
                  medical_loading_percentage |-> premium_info.medical_loading_percentage,
                  total_premium |-> premium_info.total_premium]]

\* extract_decision_from_text
ExtractDecisionFromText(decision_text, premium_info) ==
    LET decision_upper == Upper(decision_text) IN
    IF ContainsAny(decision_upper, APPROVAL_PATTERNS)
    THEN IF ContainsAny(decision_upper, CONDITIONAL_PATTERNS)
         THEN Decided(ADDITIONAL_REQUIREMENTS, "additional",
                      IF Contains(decision_text, <<"7", "-", "1", "4">>) THEN 10 ELSE 7,
                      premium_info)
         ELSE IF ContainsAny(decision_upper, APPROVAL_REVIEW_PATTERNS)
         THEN Decided(MANUAL_REVIEW, "manual", 3, premium_info)
         ELSE Decided(AUTO_APPROVED, "auto", 1, premium_info)
    ELSE IF ContainsAny(decision_upper, MANUAL_REVIEW_PATTERNS)
    THEN Decided(MANUAL_REVIEW, "manual", 3, premium_info)
    ELSE IF ContainsAny(decision_upper, ADDITIONAL_PATTERNS)
    THEN Decided(ADDITIONAL_REQUIREMENTS, "additional", 7, premium_info)
    ELSE IF ContainsAny(decision_upper, DECLINE_PATTERNS)
    THEN Decided(DECLINED, "declined", 2, premium_info)
    ELSE Decided(MANUAL_REVIEW, "manual", 3, premium_info)

\* The value of an UnderwritingDecision, character by character.
DecisionValue(decision) ==
    CASE decision = AUTO_APPROVED ->
            <<"a", "u", "t", "o", "_", "a", "p", "p", "r", "o", "v", "e", "d">>
      [] decision = MANUAL_REVIEW ->
            <<"m", "a", "n", "u", "a", "l", "_", "r", "e", "v", "i", "e", "w">>
      [] decision = ADDITIONAL_REQUIREMENTS ->
            <<"a", "d", "d", "i", "t", "i", "o", "n", "a", "l", "_", "r", "e", "q", "u", "i", "r", "e", "m", "e", "n", "t", "s">>
      [] decision = DECLINED ->
            <<"d", "e", "c", "l", "i", "n", "e", "d">>

\* The four decisions.
UnderwritingDecisions ==
    {AUTO_APPROVED, MANUAL_REVIEW, ADDITIONAL_REQUIREMENTS, DECLINED}

\* f"Underwriting decision: {report.decision.value.upper()}", the message of
\* the ReportGenerator's COMPLETED event.
RenderDecision(decision) ==
    <<"U", "n", "d", "e", "r", "w", "r", "i", "t", "i", "n", "g", " ", "d", "e", "c", "i", "s", "i", "o", "n", ":", " ">>
        \o Upper(DecisionValue(decision))

\* The rendered decisions.
RenderedDecisions == {RenderDecision(d) : d \in UnderwritingDecisions}

\* What parse_premium_from_text extracted: the total premium and the largest
\* "<n>% loading" of the Premium-Calculator text, 0 where none was found.
PremiumInfos ==
    [total_premium : {0, 16770, 20000}, medical_loading_percentage : {0, 40}]

\* The parser is called on a Decision-Maker text.
InitDecision ==
    /\ Server(0)
    /\ \E text \in DecisionTexts \cup RenderedDecisions, info \in PremiumInfos :
        calc = [fn |-> "extract_decision_from_text", decision_text |-> text,
                premium_info |-> info, returned |-> FALSE]

ParseDecision ==
    /\ calc.fn = "extract_decision_from_text" /\ ~calc.returned
    /\ calc' = [fn |-> calc.fn, decision_text |-> calc.decision_text,
                premium_info |-> calc.premium_info, returned |-> TRUE,
                result |-> ExtractDecisionFromText(calc.decision_text, calc.premium_info)]
    /\ UNCHANGED <<event_counter, store_available, store, entry, application_id,
                   gen, events, last_event_id, consumer, collected, frames,
                   response, connected, client_id, active_connections, faults,
                   workflow, workflows, messages>>

SpecDecision == InitDecision /\ [][ParseDecision]_vars

\* ------------------------------------------------- PremiumCalculator
\* Amounts are exact decimals: a sum assured is counted in thousands of rupees
\* and a premium in thousandths of a rupee, so that sum x rate and the loading
\* of a whole percentage are whole numbers.  A rate is counted in 1/10000.
\* Config.BASE_PREMIUM_RATES
BASE_PREMIUM_RATES ==
    [c \in {"Term Life Insurance", "Critical Illness",
            "Accidental Death Benefit", "Disability Income"} |->
        CASE c = "Term Life Insurance" -> 12
          [] c = "Critical Illness" -> 8
          [] c = "Accidental Death Benefit" -> 2
          [] c = "Disability Income" -> 15]

\* Config.BASE_PREMIUM_RATES.get(cover_type, 0.001)
BaseRate(cover_type) ==
    IF cover_type \in DOMAIN BASE_PREMIUM_RATES
    THEN BASE_PREMIUM_RATES[cover_type] ELSE 10

\* base_premium = sum_assured * base_rate
BasePremium(cover) == cover.sumAssured * BaseRate(cover.coverType) * 100

\* A premium of n rupees.
Rupees(n) == n * 1000

RECURSIVE GCD(_, _)
GCD(a, b) == IF b = 0 THEN a ELSE GCD(b, a % b)

\* The percentage num/den x 100 of a loading, as a fraction in lowest terms.
Percentage(num, den) ==
    LET g == GCD(num, den)
        n == (num \div g) * 100
        d == den \div g
        h == GCD(n, d) IN
    [num |-> n \div h, den |-> d \div h]

\* A whole percentage.
Percent(n) == [num |-> n, den |-> 1]

\* _determine_medical_loading; medical_risk is counted in tenths.
DetermineMedicalLoading(decision_details, risk_assessment, loading_result) ==
    IF loading_result.present
    THEN loading_result.total_loading_percentage
    ELSE IF decision_details.total_premium > 0
    THEN decision_details.medical_loading_percentage
    ELSE IF decision_details.medical_loading_percentage > 0
    THEN decision_details.medical_loading_percentage
    ELSE IF risk_assessment.present
    THEN LET loading == (10 - risk_assessment.medical_risk) * 15
             capped == IF loading < 200 THEN loading ELSE 200 IN
         IF capped > 0 THEN capped ELSE 0
    ELSE 25

\* The agent_premiums table of _use_agent_premiums, in rupees.
AgentPremiums(agent_total) ==
    [c \in DOMAIN BASE_PREMIUM_RATES |->
        CASE c = "Term Life Insurance" ->
                IF agent_total = 16770 THEN 13080 ELSE (agent_total * 78) \div 100
          [] c = "Critical Illness" ->
                IF agent_total = 16770 THEN 3488 ELSE (agent_total * 21) \div 100
          [] c = "Accidental Death Benefit" -> 200
          [] c = "Disability Income" -> 0]

\* The PremiumCalculation _use_agent_premiums appends for a cover of the table.
AgentPremium(cover, agent_total) ==
    LET final_premium == Rupees(AgentPremiums(agent_total)[cover.coverType])
        base_premium == BasePremium(cover) IN
    [cover_type |-> cover.coverType,
     base_premium |-> base_premium,
     total_loading_percentage |->
        IF final_premium > base_premium
        THEN Percentage(final_premium - base_premium, base_premium)
        ELSE Percent(0),
     final_premium |-> final_premium]

\* The body of the loop of _use_agent_premiums divides by base_premium.
AgentPremiumRaises(cover, agent_total) ==
    /\ cover.coverType \in DOMAIN BASE_PREMIUM_RATES
    /\ Rupees(AgentPremiums(agent_total)[cover.coverType]) > BasePremium(cover)
    /\ BasePremium(cover) = 0

\* The covers of the list that are in the agent_premiums table, in order.
RECURSIVE InAgentPremiums(_)
InAgentPremiums(covers) ==
    IF covers = <<>> THEN <<>>
    ELSE (IF Head(covers).coverType \in DOMAIN BASE_PREMIUM_RATES
          THEN <<Head(covers)>> ELSE <<>>) \o InAgentPremiums(Tail(covers))

\* A returned list of premium calculations, or the exception raised.
Returned(premiums) == [raised |-> None, premiums |-> premiums]
Raised(exception) == [raised |-> exception, premiums |-> <<>>]

\* _use_agent_premiums
UseAgentPremiums(covers_requested, agent_total) ==
    IF \E k \in DOMAIN covers_requested :
          AgentPremiumRaises(covers_requested[k], agent_total)
    THEN Raised("ZeroDivisionError")
    ELSE LET priced == InAgentPremiums(covers_requested) IN
         Returned([k \in DOMAIN priced |-> AgentPremium(priced[k], agent_total)])

\* The PremiumCalculation _calculate_from_risk appends for a cover.
RiskPremium(cover, medical_loading) ==
    LET base_premium == BasePremium(cover) IN
    IF cover.coverType = "Accidental Death Benefit"
    THEN [cover_type |-> cover.coverType,
          base_premium |-> base_premium,
          total_loading_percentage |-> Percent(0),
          final_premium |-> base_premium]
    ELSE [cover_type |-> cover.coverType,
          base_premium |-> base_premium,
          total_loading_percentage |-> Percent(medical_loading),
          final_premium |-> base_premium + (base_premium \div 100) * medical_loading]

\* _calculate_from_risk
CalculateFromRisk(covers_requested, medical_loading) ==
    Returned([k \in DOMAIN covers_requested |->
                RiskPremium(covers_requested[k], medical_loading)])

\* calculate_premiums
CalculatePremiums(covers_requested, decision_details, risk_assessment, loading_result) ==
    LET medical_loading ==
            DetermineMedicalLoading(decision_details, risk_assessment, loading_result)
        agent_total == decision_details.total_premium IN
    IF agent_total > 0
    THEN UseAgentPremiums(covers_requested, agent_total)
    ELSE CalculateFromRisk(covers_requested, medical_loading)

\* The covers a request can ask for: the four covers of the rate table and one
\* the table does not know, with a sum assured in thousands of rupees.
MaxCovers == 2
CoverTypes == DOMAIN BASE_PREMIUM_RATES \cup {"Travel Insurance"}
SumsAssured == {0, 500, 1000}
Covers == [coverType : CoverTypes, sumAssured : SumsAssured]
CoverLists == UNION {[1..n -> Covers] : n \in 0..MaxCovers}

\* An Optional argument that is None.
Absent == [present |-> FALSE]

\* A RiskAssessment with its medical_risk in tenths, or None.
RiskAssessments ==
    {Absent} \cup [present : {TRUE}, medical_risk : {0, 5}]

\* A LoadingResult with its total_loading_percentage, or None.
LoadingResults ==
    {Absent} \cup [present : {TRUE}, total_loading_percentage : {50, 300}]

\* The premium calculator is called for an application.
InitPremium ==
    /\ Server(0)
    /\ \E covers \in CoverLists, info \in PremiumInfos,
          risk \in RiskAssessments, loading \in LoadingResults :
        calc = [fn |-> "calculate_premiums", covers_requested |-> covers,
                decision_details |-> info, risk_assessment |-> risk,
                loading_result |-> loading, returned |-> FALSE]

CalculatePremiumsCall ==
    /\ calc.fn = "calculate_premiums" /\ ~calc.returned
    /\ calc' = [fn |-> calc.fn, covers_requested |-> calc.covers_requested,
                decision_details |-> calc.decision_details,
                risk_assessment |-> calc.risk_assessment,
                loading_result |-> calc.loading_result, returned |-> TRUE,
                result |-> CalculatePremiums(calc.covers_requested,
                                             calc.decision_details,
                                             calc.risk_assessment,
                                             calc.loading_result)]
    /\ UNCHANGED <<event_counter, store_available, store, entry, application_id,
                   gen, events, last_event_id, consumer, collected, frames,
                   response, connected, client_id, active_connections, faults,
                   workflow, workflows, messages>>

SpecPremium == InitPremium /\ [][CalculatePremiumsCall]_vars

\* ------------------------------------------------- _generate_report
\* A report, or the exception that left _generate_report.
Report(decision, premium_calculations) ==
    [raised |-> None, decision |-> decision,
     premium_calculations |-> premium_calculations]

\* A _generate_report that calculates the premiums whatever the decision.
GenerateReportAlwaysPrices(covers_requested, decision_text, premium_info, risk_assessment, loading_result) ==
    LET parsed == ExtractDecisionFromText(decision_text, premium_info)
        priced == CalculatePremiums(covers_requested, parsed.details,
                                    risk_assessment, loading_result) IN
    IF priced.raised # None THEN [raised |-> priced.raised]
    ELSE Report(parsed.decision, priced.premiums)

\* _generate_report of the streaming orchestrator and of UnderwritingAgentsV2:
\* the decision is parsed from the Decision-Maker text, and the premiums are
\* calculated unless it is DECLINED.
GenerateReport(covers_requested, decision_text, premium_info, risk_assessment, loading_result) ==
    LET parsed == ExtractDecisionFromText(decision_text, premium_info) IN
    IF parsed.decision # DECLINED
    THEN LET priced == CalculatePremiums(covers_requested, parsed.details,
                                         risk_assessment, loading_result) IN
         IF priced.raised # None THEN [raised |-> priced.raised]
         ELSE Report(parsed.decision, priced.premiums)
    ELSE Report(parsed.decision, <<>>)

\* Decision-Maker texts of a report.
ReportTexts ==
    {<<"A", "P", "P", "R", "O", "V", "E", "D">>,
     <<"M", "A", "N", "U", "A", "L", " ", "R", "E", "V", "I", "E", "W">>,
     <<"D", "E", "C", "L", "I", "N", "E">>,
     <<"D", "E", "C", "L", "I", "N", "E", ":", " ", "U", "n", "a", "c", "c", "e", "p", "t", "a", "b", "l", "e">>}

\* The report of a workflow is generated from the agents' texts.
InitReport ==
    /\ Server(0)
    /\ \E covers \in CoverLists, text \in ReportTexts, info \in PremiumInfos,
          risk \in RiskAssessments, loading \in LoadingResults :
        calc = [fn |-> "_generate_report", covers_requested |-> covers,
                decision_text |-> text, premium_info |-> info,
                risk_assessment |-> risk, loading_result |-> loading,
                returned |-> FALSE]

GenerateReportCall ==
    /\ calc.fn = "_generate_report" /\ ~calc.returned
    /\ calc' = [fn |-> calc.fn, covers_requested |-> calc.covers_requested,
                decision_text |-> calc.decision_text,
                premium_info |-> calc.premium_info,
                risk_assessment |-> calc.risk_assessment,
                loading_result |-> calc.loading_result, returned |-> TRUE,
                result |-> GenerateReport(calc.covers_requested,
                                          calc.decision_text, calc.premium_info,
                                          calc.risk_assessment,
                                          calc.loading_result)]
    /\ UNCHANGED <<event_counter, store_available, store, entry, application_id,
                   gen, events, last_event_id, consumer, collected, frames,
                   response, connected, client_id, active_connections, faults,
                   workflow, workflows, messages>>

SpecReport == InitReport /\ [][GenerateReportCall]_vars

\* ------------------------------------------------- MedicalLoadingEngine
\* MedicalConditionSeverity values
MINIMAL == "minimal"
MILD == "mild"
MODERATE == "moderate"
SEVERE == "severe"
CRITICAL == "critical"

\* [l.loading_percentage for l in individual_loadings if l.severity == severity]
RECURSIVE PercentagesOf(_, _)
PercentagesOf(individual_loadings, severity) ==
    IF individual_loadings = <<>> THEN <<>>
    ELSE (IF Head(individual_loadings).severity = severity
          THEN <<Head(individual_loadings).loading_percentage>> ELSE <<>>)
         \o PercentagesOf(Tail(individual_loadings), severity)

\* sum(percentages)
RECURSIVE SumOf(_)
SumOf(percentages) ==
    IF percentages = <<>> THEN 0
    ELSE Head(percentages) + SumOf(Tail(percentages))

\* max(percentages) of a non-empty list
MaxOf(percentages) ==
    CHOOSE m \in {percentages[k] : k \in DOMAIN percentages} :
        \A k \in DOMAIN percentages : percentages[k] <= m

\* max(percentages), plus sum(percentages[1:]) * factor if there are several;
\* in tenths of a percent, the factor in tenths.
HighestPlusOthers(percentages, factor) ==
    MaxOf(percentages) * 10
        + (IF Len(percentages) > 1 THEN SumOf(Tail(percentages)) * factor ELSE 0)

\* total_loading of _calculate_combined_loading before the age adjustment, in
\* tenths of a percent.
BaseLoading(individual_loadings) ==
    LET critical == PercentagesOf(individual_loadings, CRITICAL)
        severe == PercentagesOf(individual_loadings, SEVERE)
        moderate == PercentagesOf(individual_loadings, MODERATE)
        mild == PercentagesOf(individual_loadings, MILD) IN
    (IF critical # <<>> THEN HighestPlusOthers(critical, 5) ELSE 0)
    + (IF severe # <<>>
       THEN IF critical = <<>> THEN HighestPlusOthers(severe, 4)
            ELSE SumOf(severe) * 3
       ELSE 0)
    + (IF moderate # <<>>
       THEN IF critical = <<>> /\ severe = <<>> THEN HighestPlusOthers(moderate, 3)
            ELSE SumOf(moderate) * 2
       ELSE 0)
    + (IF mild # <<>> THEN SumOf(mild) * 2 ELSE 0)

\* age_loading_adjustments: the multiplier of an age, in tenths.
AgeMultiplier(age) ==
    CASE 18 <= age /\ age <= 25 -> 8
      [] 26 <= age /\ age <= 35 -> 10
      [] 36 <= age /\ age <= 45 -> 12
      [] 46 <= age /\ age <= 55 -> 14
      [] 56 <= age /\ age <= 65 -> 16
      [] 66 <= age /\ age <= 75 -> 20
      [] OTHER -> 10

\* _calculate_combined_loading: the total before the age adjustment in tenths
\* of a percent, and the returned loading in hundredths of a percent.
CalculateCombinedLoading(individual_loadings, age) ==
    IF individual_loadings = <<>>
    THEN [before_age |-> 0, total |-> 0]
    ELSE LET total_loading == BaseLoading(individual_loadings)
             adjusted == total_loading * AgeMultiplier(age) IN
         [before_age |-> total_loading,
          total |-> IF adjusted > 30000 THEN 30000
                    ELSE IF adjusted < 0 THEN 0 ELSE adjusted]

\* The individual loadings of an applicant.
MaxLoadings == 3
Severities == {MINIMAL, MILD, MODERATE, SEVERE, CRITICAL}
MedicalLoadings == [severity : Severities, loading_percentage : {50, 100}]
LoadingLists == UNION {[1..n -> MedicalLoadings] : n \in 0..MaxLoadings}
Ages == {22, 30, 50, 80}

\* The individual loadings of an applicant are combined.
InitLoading ==
    /\ Server(0)
    /\ \E loadings \in LoadingLists, age \in Ages :
        calc = [fn |-> "_calculate_combined_loading",
                individual_loadings |-> loadings, age |-> age,
                returned |-> FALSE]

CombineLoadings ==
    /\ calc.fn = "_calculate_combined_loading" /\ ~calc.returned
    /\ calc' = [fn |-> calc.fn, individual_loadings |-> calc.individual_loadings,
                age |-> calc.age, returned |-> TRUE,
                result |-> CalculateCombinedLoading(calc.individual_loadings,
                                                    calc.age)]
    /\ UNCHANGED <<event_counter, store_available, store, entry, application_id,
                   gen, events, last_event_id, consumer, collected, frames,
                   response, connected, client_id, active_connections, faults,
                   workflow, workflows, messages>>

SpecLoading == InitLoading /\ [][CombineLoadings]_vars

\* ------------------------------------------------- RiskAssessmentML
\* The lowest terms of the fraction num/den.
Fraction(num, den) ==
    LET g == GCD(num, den) IN [num |-> num \div g, den |-> den \div g]

\* personalInfo.income as PersonalInfo.model_dump() gives it: None when the
\* request omits it, else a dict that may or may not hold 'annual' (in
\* thousands of rupees).
Incomes ==
    {Absent, [present |-> TRUE, has_annual |-> FALSE]}
        \cup [present : {TRUE}, has_annual : {TRUE}, annual : {0, 500, 1500}]

\* The lifestyle dict of a request, {} when the request omits it.
Lifestyles == [smoker : BOOLEAN, unitsPerWeek : {0, 20}]

\* The applicant data assess_risk reads; the request leaves out health, so
\* height and weight take their defaults.
Applicants ==
    [income : Incomes, lifestyle : Lifestyles, totalSumAssured : {1000, 5000}]

\* The outputs of the trained classifier: risk_levels[risk_pred].
RiskLevels == {"low", "standard", "high"}

\* lifestyle_score in hundredths
LifestyleScore(lifestyle) ==
    80 - (IF lifestyle.smoker THEN 30 ELSE 0)
       - (IF lifestyle.unitsPerWeek > 14 THEN 10 ELSE 0)

\* min(0.5, total_sum_assured / (income * 10))
FinancialRisk(total_sum_assured, income) ==
    IF 2 * total_sum_assured >= income * 10
    THEN Fraction(1, 2)
    ELSE Fraction(total_sum_assured, income * 10)

\* assess_risk: the exception it raises, or the RiskAssessment it returns for
\* the classifier's prediction; the scores are in hundredths.
AssessRisk(applicant_data, risk_score, risk_level) ==
    IF ~applicant_data.income.present
    THEN [raised |-> "AttributeError"]
    ELSE LET income == IF applicant_data.income.has_annual
                       THEN applicant_data.income.annual ELSE 1000 IN
         IF income = 0
         THEN [raised |-> "ZeroDivisionError"]
         ELSE [raised |-> None,
               overall_risk_level |-> risk_level,
               medical_risk |-> 100 - risk_score,
               lifestyle_risk |-> 100 - LifestyleScore(applicant_data.lifestyle),
               financial_risk |->
                    FinancialRisk(applicant_data.totalSumAssured, income),
               occupation_risk |-> 10]

\* MedicalFindings.risk_score in hundredths.
RiskScores == {40, 65, 80}

\* The risk engine is called for an application.
InitRisk ==
    /\ Server(0)
    /\ \E applicant \in Applicants, score \in RiskScores :
        calc = [fn |-> "assess_risk", applicant_data |-> applicant,
                risk_score |-> score, returned |-> FALSE]

AssessRiskCall ==
    /\ calc.fn = "assess_risk" /\ ~calc.returned
    /\ \E level \in RiskLevels :
        calc' = [fn |-> calc.fn, applicant_data |-> calc.applicant_data,
                 risk_score |-> calc.risk_score, returned |-> TRUE,
                 result |-> AssessRisk(calc.applicant_data, calc.risk_score,
                                       level)]
    /\ UNCHANGED <<event_counter, store_available, store, entry, application_id,
                   gen, events, last_event_id, consumer, collected, frames,
                   response, connected, client_id, active_connections, faults,
                   workflow, workflows, messages>>

SpecRisk == InitRisk /\ [][AssessRiskCall]_vars

\* ------------------------------------------------- UnderwritingUtils
\* min(1.0, max(0.5, x)), in hundredths
ClampConfidence(x) == IF x > 100 THEN 100 ELSE IF x < 50 THEN 50 ELSE x

\* decision_confidence, in hundredths
DecisionConfidence(final_decision) ==
    CASE final_decision = AUTO_APPROVED -> 95
      [] final_decision = MANUAL_REVIEW -> 80
      [] final_decision = ADDITIONAL_REQUIREMENTS -> 70
      [] final_decision = DECLINED -> 90
      [] OTHER -> 85

\* A confidence score whose three medical adjustments are independent.
CalculateConfidenceScoreIndependent(final_decision, risk_score, critical_alerts, abnormal_values) ==
    ClampConfidence(
        DecisionConfidence(final_decision)
        + (IF critical_alerts > 0 \/ abnormal_values = 0 THEN 5 ELSE 0)
        - (IF abnormal_values > 3 THEN 10 ELSE 0)
        + (IF risk_score > 80 /\ final_decision = AUTO_APPROVED THEN 5
           ELSE IF risk_score < 30 /\ final_decision = DECLINED THEN 5
           ELSE 0))

\* calculate_confidence_score, in hundredths; risk_score is that of the
\* RiskAssessment in hundredths, critical_alerts and abnormal_values are the
\* lengths of the lists of the MedicalFindings.
CalculateConfidenceScore(final_decision, risk_score, critical_alerts, abnormal_values) ==
    ClampConfidence(
        DecisionConfidence(final_decision)
        + (IF critical_alerts > 0 THEN 5
           ELSE IF abnormal_values = 0 THEN 5
           ELSE IF abnormal_values > 3 THEN -10
           ELSE 0)
        + (IF risk_score > 80 /\ final_decision = AUTO_APPROVED THEN 5
           ELSE IF risk_score < 30 /\ final_decision = DECLINED THEN 5
           ELSE 0))

\* The confidence score of a report is calculated.
InitConfidence ==
    /\ Server(0)
    /\ \E decision \in UnderwritingDecisions, score \in {20, 50, 80, 90},
          critical \in {0, 1}, abnormal \in {0, 2, 4} :
        calc = [fn |-> "calculate_confidence_score", final_decision |-> decision,
                risk_score |-> score, critical_alerts |-> critical,
                abnormal_values |-> abnormal, returned |-> FALSE]

CalculateConfidenceScoreCall ==
    /\ calc.fn = "calculate_confidence_score" /\ ~calc.returned
    /\ calc' = [fn |-> calc.fn, final_decision |-> calc.final_decision,
                risk_score |-> calc.risk_score,
                critical_alerts |-> calc.critical_alerts,
                abnormal_values |-> calc.abnormal_values, returned |-> TRUE,
                result |-> CalculateConfidenceScore(calc.final_decision,
                                                    calc.risk_score,
                                                    calc.critical_alerts,
                                                    calc.abnormal_values)]
    /\ UNCHANGED <<event_counter, store_available, store, entry, application_id,
                   gen, events, last_event_id, consumer, collected, frames,
                   response, connected, client_id, active_connections, faults,
                   workflow, workflows, messages>>

SpecConfidence == InitConfidence /\ [][CalculateConfidenceScoreCall]_vars

\* ------------------------------------------------- MedicalDataAnalyzer
\* A lab value of a report: the key is missing, or its dict holds the value
\* null, or a number.
Measurements(values) ==
    {Absent} \cup [present : {TRUE}, null : {TRUE}]
             \cup [present : {TRUE}, null : {FALSE}, value : values]

\* labResults.completeBloodCount: missing, or a block with or without its
\* hemoglobin (g/dL) and wbc (/cmm) entries.
BloodCounts ==
    {Absent} \cup [present : {TRUE}, hemoglobin : Measurements({8, 13}),
                   wbc : Measurements({8000, 20000})]

\* labResults.bloodSugar: missing, or a block with a list of random readings
\* or without one, and a fasting value (0 when missing).
BloodSugars ==
    {Absent} \cup [present : {TRUE}, has_random : BOOLEAN,
                   random : {<<>>, <<200>>}, fasting : {100, 140}]

\* A medical report of medical_data['medical_data'].
MedicalReports ==
    [extraction_successful : BOOLEAN, critical_alerts : {0, 1},
     bloodSugar : BloodSugars, completeBloodCount : BloodCounts]

\* cbc.get(key, {}).get('value', 0), before float()
ValueOrZero(measurement) ==
    IF measurement.present THEN measurement.value ELSE 0

\* float(None) raises TypeError
FloatRaises(measurement) == measurement.present /\ measurement.null

\* The risk factors the random readings add.
RECURSIVE RandomFactors(_)
RandomFactors(readings) ==
    IF readings = <<>> THEN <<>>
    ELSE (IF Head(readings) > 180 THEN <<"high_blood_sugar">> ELSE <<>>)
         \o RandomFactors(Tail(readings))

\* The risk factors of the blood sugar analysis.
BloodSugarFactors(report) ==
    LET blood_sugar == report.bloodSugar IN
    IF ~blood_sugar.present THEN <<>>
    ELSE IF blood_sugar.has_random THEN RandomFactors(blood_sugar.random)
    ELSE IF blood_sugar.fasting > 126 THEN <<"diabetes_risk">>
    ELSE <<>>

\* The risk factors of the CBC analysis.
BloodCountFactors(report) ==
    LET cbc == report.completeBloodCount IN
    IF ~cbc.present THEN <<>>
    ELSE (IF ValueOrZero(cbc.hemoglobin) < 10 THEN <<"anemia">> ELSE <<>>)
         \o (IF ValueOrZero(cbc.wbc) > 15000
             THEN <<"infection_inflammation">> ELSE <<>>)

\* The penalty of a risk factor, in hundredths.
FactorPenalty(factor) ==
    CASE factor \in {"high_blood_sugar", "diabetes_risk"} -> 15
      [] factor = "cardiac_issues" -> 25
      [] factor = "anemia" -> 10
      [] factor = "infection_inflammation" -> 5
      [] OTHER -> 0

RECURSIVE SumPenalties(_)
SumPenalties(risk_factors) ==
    IF risk_factors = <<>> THEN 0
    ELSE FactorPenalty(Head(risk_factors)) + SumPenalties(Tail(risk_factors))

\* _calculate_medical_risk_score, in hundredths
CalculateMedicalRiskScore(risk_factors, critical_alerts) ==
    LET base_score == 80 - SumPenalties(risk_factors) - critical_alerts * 20 IN
    IF base_score < 0 THEN 0 ELSE IF base_score > 100 THEN 100 ELSE base_score

\* analyze_medical_data on one report: the exception raised, or the risk
\* factors found and the risk_score of the MedicalFindings.
AnalyzeMedicalData(report) ==
    IF ~report.extraction_successful
    THEN [raised |-> None, risk_factors |-> <<>>,
          risk_score |-> CalculateMedicalRiskScore(<<>>, 0)]
    ELSE IF /\ report.completeBloodCount.present
            /\ \/ FloatRaises(report.completeBloodCount.hemoglobin)
               \/ FloatRaises(report.completeBloodCount.wbc)
    THEN [raised |-> "TypeError"]
    ELSE LET risk_factors ==
                 BloodSugarFactors(report) \o BloodCountFactors(report) IN
         [raised |-> None, risk_factors |-> risk_factors,
          risk_score |->
             CalculateMedicalRiskScore(risk_factors, report.critical_alerts)]

\* The medical analyzer is called on the medical data of an application.
InitAnalyzer ==
    /\ Server(0)
    /\ \E report \in MedicalReports :
        calc = [fn |-> "analyze_medical_data", report |-> report,
                returned |-> FALSE]

AnalyzeMedicalDataCall ==
    /\ calc.fn = "analyze_medical_data" /\ ~calc.returned
    /\ calc' = [fn |-> calc.fn, report |-> calc.report, returned |-> TRUE,
                result |-> AnalyzeMedicalData(calc.report)]
    /\ UNCHANGED <<event_counter, store_available, store, entry, application_id,
                   gen, events, last_event_id, consumer, collected, frames,
                   response, connected, client_id, active_connections, faults,
                   workflow, workflows, messages>>

SpecAnalyzer == InitAnalyzer /\ [][AnalyzeMedicalDataCall]_vars

\* ------------------------------------- recommendations and exclusions
\* str.lower()
LowerChar(c) ==
    IF \E m \in UpperCase : m[2] = c
    THEN (CHOOSE m \in UpperCase : m[2] = c)[1]
    ELSE c

Lower(text) == [i \in 1..Len(text) |-> LowerChar(text[i])]

\* The words that put a condition into a family.
DIABETES_WORDS == {<<"d", "i", "a", "b", "e", "t", "e", "s">>}
CARDIAC_WORDS ==
    {<<"c", "a", "r", "d", "i", "a", "c">>,
     <<"h", "e", "a", "r", "t">>,
     <<"h", "y", "p", "e", "r", "t", "e", "n", "s", "i", "o", "n">>}
LIVER_WORDS ==
    {<<"l", "i", "v", "e", "r">>, <<"a", "l", "t">>, <<"a", "s", "t">>}
KIDNEY_WORDS ==
    {<<"k", "i", "d", "n", "e", "y">>,
     <<"c", "r", "e", "a", "t", "i", "n", "i", "n", "e">>}

\* [l for l in loadings if any(word in l.condition.lower() for word in words)]
RECURSIVE ConditionsOf(_, _)
ConditionsOf(loadings, words) ==
    IF loadings = <<>> THEN <<>>
    ELSE (IF ContainsAny(Lower(Head(loadings).condition), words)
          THEN <<Head(loadings)>> ELSE <<>>)
         \o ConditionsOf(Tail(loadings), words)

\* any(l.severity in severities for l in conditions)
AnySeverity(conditions, severities) ==
    \E k \in DOMAIN conditions : conditions[k].severity \in severities

\* _generate_recommendations_and_exclusions: the exclusions and
\* requires_additional_tests it returns.
GenerateRecommendationsAndExclusions(loadings, critical_count) ==
    LET diabetes == AnySeverity(ConditionsOf(loadings, DIABETES_WORDS),
                                {SEVERE, CRITICAL})
        cardiac == AnySeverity(ConditionsOf(loadings, CARDIAC_WORDS), {CRITICAL})
        liver == AnySeverity(ConditionsOf(loadings, LIVER_WORDS),
                             {SEVERE, CRITICAL})
        kidney == AnySeverity(ConditionsOf(loadings, KIDNEY_WORDS),
                              {SEVERE, CRITICAL}) IN
    [exclusions |->
        (IF diabetes
         THEN <<"Diabetes-related complications exclusion for Critical Illness coverage">>
         ELSE <<>>)
        \o (IF cardiac THEN <<"Pre-existing cardiac condition exclusion">> ELSE <<>>)
        \o (IF liver THEN <<"Liver disease exclusion">> ELSE <<>>)
        \o (IF kidney THEN <<"Kidney disease exclusion">> ELSE <<>>),
     requires_additional_tests |->
        diabetes \/ cardiac \/ liver \/ kidney \/ critical_count > 2]

\* Conditions the engine's loadings name.
ConditionNames ==
    {<<"U", "n", "c", "o", "n", "t", "r", "o", "l", "l", "e", "d", " ", "D", "i", "a", "b", "e", "t", "e", "s">>,
     <<"S", "e", "v", "e", "r", "e", " ", "H", "y", "p", "e", "r", "t", "e", "n", "s", "i", "o", "n">>,
     <<"C", "a", "r", "d", "i", "a", "c", " ", "A", "b", "n", "o", "r", "m", "a", "l", "i", "t", "y">>,
     <<"L", "i", "v", "e", "r", " ", "F", "u", "n", "c", "t", "i", "o", "n", " ", "A", "b", "n", "o", "r", "m", "a", "l", "i", "t", "y">>,
     <<"K", "i", "d", "n", "e", "y", " ", "F", "u", "n", "c", "t", "i", "o", "n", " ", "A", "b", "n", "o", "r", "m", "a", "l", "i", "t", "y">>,
     <<"H", "e", "a", "v", "y", " ", "S", "m", "o", "k", "i", "n", "g">>}

\* The loadings the recommendations are generated for.
MaxConditions == 2
ConditionLoadings ==
    [condition : ConditionNames, severity : {MODERATE, SEVERE, CRITICAL}]
ConditionLists == UNION {[1..n -> ConditionLoadings] : n \in 0..MaxConditions}

\* The recommendations and exclusions of a loading result are generated.
InitExclusions ==
    /\ Server(0)
    /\ \E loadings \in ConditionLists, critical \in {0, 3} :
        calc = [fn |-> "_generate_recommendations_and_exclusions",
                loadings |-> loadings, critical_count |-> critical,
                returned |-> FALSE]

GenerateExclusionsCall ==
    /\ calc.fn = "_generate_recommendations_and_exclusions" /\ ~calc.returned
    /\ calc' = [fn |-> calc.fn, loadings |-> calc.loadings,
                critical_count |-> calc.critical_count, returned |-> TRUE,
                result |-> GenerateRecommendationsAndExclusions(
                                calc.loadings, calc.critical_count)]
    /\ UNCHANGED <<event_counter, store_available, store, entry, application_id,
                   gen, events, last_event_id, consumer, collected, frames,
                   response, connected, client_id, active_connections, faults,
                   workflow, workflows, messages>>

SpecExclusions == InitExclusions /\ [][GenerateExclusionsCall]_vars

\* ================================================ report reasoning
\* dict.get(key, ''), on a dict of texts.
Get(dict, key) == IF key \in DOMAIN dict THEN dict[key] ELSE <<>>

\* _generate_report: the agents' texts under the keys the parser is given.
MappedAnalyses(agent_analyses) ==
    [medical_review |-> Get(agent_analyses, "medical_reviewer"),
     risk_assessment |-> Get(agent_analyses, "risk_assessor"),
     premium_calculation |-> Get(agent_analyses, "premium_calculator"),
     fraud_detection |-> Get(agent_analyses, "fraud_detector"),
     final_decision |-> Get(agent_analyses, "decision_maker")]

\* str.split('\n')
RECURSIVE SplitLines(_)
SplitLines(text) ==
    IF \E i \in 1..Len(text) : text[i] = "\n"
    THEN LET i == CHOOSE i \in 1..Len(text) :
                    /\ text[i] = "\n"
                    /\ \A j \in 1..(i - 1) : text[j] # "\n"
         IN <<SubSeq(text, 1, i - 1)>> \o SplitLines(SubSeq(text, i + 1, Len(text)))
    ELSE <<text>>

\* str.strip(), on the blanks the texts use.
RECURSIVE Strip(_)
Strip(line) ==
    IF line # <<>> /\ Head(line) = " " THEN Strip(Tail(line))
    ELSE IF line # <<>> /\ line[Len(line)] = " "
         THEN Strip(SubSeq(line, 1, Len(line) - 1))
         ELSE line

\* [line.strip() for line in text.split('\n') if line.strip()]
DecisionLines(text) ==
    LET lines == SplitLines(text)
        stripped == [i \in 1..Len(lines) |-> Strip(lines[i])]
        NonEmpty(line) == line # <<>>
    IN SelectSeq(stripped, NonEmpty)

REASONING_KEYWORDS ==
    {<<"D", "E", "C", "I", "S", "I", "O", "N">>,
     <<"R", "E", "C", "O", "M", "M", "E", "N", "D", "A", "T", "I", "O", "N">>,
     <<"C", "O", "N", "C", "L", "U", "S", "I", "O", "N">>,
     <<"R", "A", "T", "I", "O", "N", "A", "L", "E">>}

\* The lines of a text that hold one of the keywords, in any case.
KeyPoints(text) ==
    LET IsKeyPoint(line) == ContainsAny(Upper(line), REASONING_KEYWORDS)
    IN SelectSeq(DecisionLines(text), IsKeyPoint)

MEDICAL_CONCERNS ==
    <<"M", "e", "d", "i", "c", "a", "l", " ", "r", "e", "v", "i", "e", "w", " ", "i", "d", "e", "n", "t", "i", "f", "i", "e", "d", " ", "s", "p", "e", "c", "i", "f", "i", "c", " ", "c", "o", "n", "c", "e", "r", "n", "s", " ", "r", "e", "q", "u", "i", "r", "i", "n", "g", " ", "a", "t", "t", "e", "n", "t", "i", "o", "n">>
FRAUD_LOW_RISK ==
    <<"F", "r", "a", "u", "d", " ", "a", "n", "a", "l", "y", "s", "i", "s", " ", "i", "n", "d", "i", "c", "a", "t", "e", "s", " ", "l", "o", "w", " ", "r", "i", "s", "k", " ", "p", "r", "o", "f", "i", "l", "e">>
FRAUD_VERIFICATION ==
    <<"A", "d", "d", "i", "t", "i", "o", "n", "a", "l", " ", "v", "e", "r", "i", "f", "i", "c", "a", "t", "i", "o", "n", " ", "r", "e", "c", "o", "m", "m", "e", "n", "d", "e", "d", " ", "b", "a", "s", "e", "d", " ", "o", "n", " ", "f", "r", "a", "u", "d", " ", "a", "n", "a", "l", "y", "s", "i", "s">>

\* final_decision.value.replace('_', ' ').title()
TitleDecision(decision) ==
    CASE decision = AUTO_APPROVED -> <<"A", "u", "t", "o", " ", "A", "p", "p", "r", "o", "v", "e", "d">>
      [] decision = MANUAL_REVIEW -> <<"M", "a", "n", "u", "a", "l", " ", "R", "e", "v", "i", "e", "w">>
      [] decision = ADDITIONAL_REQUIREMENTS ->
            <<"A", "d", "d", "i", "t", "i", "o", "n", "a", "l", " ", "R", "e", "q", "u", "i", "r", "e", "m", "e", "n", "t", "s">>
      [] decision = DECLINED -> <<"D", "e", "c", "l", "i", "n", "e", "d">>

\* build_reasoning's fallback: the template lines, each up to the first
\* figure it formats.
FallbackReasoning(final_decision, decision_details) ==
    <<<<"D", "e", "c", "i", "s", "i", "o", "n", ":", " ">>
        \o TitleDecision(final_decision),
      <<"R", "i", "s", "k", " ", "S", "c", "o", "r", "e", ":", " ">>,
      <<"M", "e", "d", "i", "c", "a", "l", " ", "F", "i", "n", "d", "i", "n", "g", "s", ":", " ">>,
      <<"P", "r", "o", "c", "e", "s", "s", "i", "n", "g", ":", " ">>>>
    \o (IF decision_details.total_premium > 0
        THEN <<<<"T", "o", "t", "a", "l", " ", "P", "r", "e", "m", "i", "u", "m", ":", " ">>>>
        ELSE <<>>)

\* build_reasoning
BuildReasoning(final_decision, decision_details, agent_analyses) ==
    LET decision_response == Get(agent_analyses, "decision_maker")
        medical_response == Get(agent_analyses, "medical_review")
        fraud_response == Get(agent_analyses, "fraud_detection")
        key_points == KeyPoints(decision_response)
        from_decision ==
            IF decision_response # <<>> /\ key_points # <<>>
            THEN SubSeq(key_points, 1, IF Len(key_points) < 2 THEN Len(key_points) ELSE 2)
            ELSE <<>>
        from_medical ==
            IF /\ medical_response # <<>>
               /\ \/ Contains(Lower(medical_response), <<"a", "b", "n", "o", "r", "m", "a", "l">>)
                  \/ Contains(Lower(medical_response), <<"c", "o", "n", "c", "e", "r", "n">>)
            THEN <<MEDICAL_CONCERNS>>
            ELSE <<>>
        from_fraud ==
            IF fraud_response = <<>> THEN <<>>
            ELSE IF Contains(Lower(fraud_response), <<"l", "o", "w", " ", "r", "i", "s", "k">>)
                 THEN <<FRAUD_LOW_RISK>>
                 ELSE IF Contains(Lower(fraud_response), <<"v", "e", "r", "i", "f", "i", "c", "a", "t", "i", "o", "n">>)
                      THEN <<FRAUD_VERIFICATION>>
                      ELSE <<>>
        reasoning == from_decision \o from_medical \o from_fraud
    IN IF reasoning = <<>>
       THEN FallbackReasoning(final_decision, decision_details)
       ELSE reasoning

\* _generate_report, as far as the report's reasoning: the decision is parsed
\* from the mapped texts and build_reasoning is handed the mapped texts.
ReportReasoning(agent_analyses, premium_info) ==
    LET mapped_analyses == MappedAnalyses(agent_analyses)
        parsed == ExtractDecisionFromText(mapped_analyses.final_decision, premium_info)
    IN [decision |-> parsed.decision,
        reasoning |-> BuildReasoning(parsed.decision, parsed.details, mapped_analyses)]

DecisionMakerTexts ==
    {<<>>,
     <<"D", "E", "C", "I", "S", "I", "O", "N", ":", " ", "A", "P", "P", "R", "O", "V", "E", "D", "\n", "R", "a", "t", "i", "o", "n", "a", "l", "e", ":", " ", "f", "i", "t", "\n", "C", "o", "n", "c", "l", "u", "s", "i", "o", "n", ":", " ", "i", "s", "s", "u", "e">>,
     <<"S", "u", "m", "m", "a", "r", "y", "\n", " ", " ", "R", "e", "c", "o", "m", "m", "e", "n", "d", "a", "t", "i", "o", "n", ":", " ", "d", "e", "c", "l", "i", "n", "e", " ", "\n", "\n", "e", "n", "d">>,
     <<"M", "A", "N", "U", "A", "L", " ", "R", "E", "V", "I", "E", "W">>}

MedicalReviewerTexts ==
    {<<>>,
     <<"A", "b", "n", "o", "r", "m", "a", "l", " ", "s", "u", "g", "a", "r">>,
     <<"A", "l", "l", " ", "n", "o", "r", "m", "a", "l">>}

FraudDetectorTexts ==
    {<<>>,
     <<"L", "o", "w", " ", "r", "i", "s", "k">>,
     <<"V", "e", "r", "i", "f", "i", "c", "a", "t", "i", "o", "n", " ", "d", "u", "e">>,
     <<"C", "l", "e", "a", "r">>}

InitReasoning ==
    /\ Server(0)
    /\ \E decision_maker \in DecisionMakerTexts,
          medical_reviewer \in MedicalReviewerTexts,
          fraud_detector \in FraudDetectorTexts,
          premium_info \in PremiumInfos :
        calc = [fn |-> "build_reasoning",
                agent_analyses |-> [medical_reviewer |-> medical_reviewer,
                                    fraud_detector |-> fraud_detector,
                                    decision_maker |-> decision_maker],
                premium_info |-> premium_info, returned |-> FALSE]

GenerateReasoningCall ==
    /\ calc.fn = "build_reasoning" /\ ~calc.returned
    /\ calc' = [fn |-> calc.fn, agent_analyses |-> calc.agent_analyses,
                premium_info |-> calc.premium_info, returned |-> TRUE,
                result |-> ReportReasoning(calc.agent_analyses, calc.premium_info)]
    /\ UNCHANGED <<event_counter, store_available, store, entry, application_id,
                   gen, events, last_event_id, consumer, collected, frames,
                   response, connected, client_id, active_connections, faults,
                   workflow, workflows, messages>>

SpecReasoning == InitReasoning /\ [][GenerateReasoningCall]_vars

\* ================================================ V2 group chat
MAX_CHAT_ROUNDS == 50

\* _initialize_agents: the name of the agent under each key of self.agents.
AgentNames ==
    [medical_reviewer |-> "MedicalReviewer", risk_assessor |-> "RiskAssessor",
     premium_calculator |-> "PremiumCalculator", fraud_detector |-> "FraudDetector",
     decision_maker |-> "DecisionMaker"]

\* _setup_user_proxy
UNDERWRITING_MANAGER == "UnderwritingManager"

\* speaker_selection's workflow_map: the key of the agent that follows a speaker.
WorkflowMap ==
    [MedicalReviewer |-> "fraud_detector", FraudDetector |-> "risk_assessor",
     RiskAssessor |-> "premium_calculator", PremiumCalculator |-> "decision_maker",
     DecisionMaker |-> None]

COMPLETION_TERMS ==
    {<<"D", "E", "C", "I", "S", "I", "O", "N", ":">>,
     <<"A", "P", "P", "R", "O", "V", "E", "D">>,
     <<"D", "E", "C", "L", "I", "N", "E", "D">>,
     <<"M", "A", "N", "U", "A", "L", " ", "R", "E", "V", "I", "E", "W">>}

\* speaker_selection: the key of the next agent of self.agents, or None to end
\* the chat. last_speaker is the name of the last speaker, or None.
SpeakerSelection(last_speaker, chat_messages) ==
    IF chat_messages = <<>> THEN "medical_reviewer"
    ELSE LET last_message == chat_messages[Len(chat_messages)] IN
         IF last_speaker = "DecisionMaker"
         THEN IF ContainsAny(Upper(last_message.content), COMPLETION_TERMS)
              THEN None
              ELSE None
         ELSE IF last_speaker \in DOMAIN WorkflowMap
              THEN WorkflowMap[last_speaker]
              ELSE "decision_maker"

\* _build_case_context: case messages, which are never empty.
CaseContexts ==
    {<<"C", "A", "S", "E", ":", " ", "A", " ", "(", "A", "g", "e", ":", " ", "3", "0", ")">>,
     <<"C", "A", "S", "E", ":", " ", "B", " ", "(", "A", "g", "e", ":", " ", "5", "5", ")">>,
     <<"C", "A", "S", "E", ":", " ", "U", "n", "k", "n", "o", "w", "n">>}

\* _run_group_chat: the Underwriting Manager initiates the chat with the case
\* context, which is the first message of the group chat and makes the manager
\* the last speaker when the first speaker is selected.
InitGroupChat ==
    /\ Server(0)
    /\ \E case_context \in CaseContexts :
        calc = [fn |-> "initiate_chat",
                messages |-> <<[name |-> UNDERWRITING_MANAGER, content |-> case_context]>>,
                last_speaker |-> UNDERWRITING_MANAGER,
                selected |-> None, pc |-> "select"]

\* The group chat asks speaker_selection for the next speaker; the chat is over
\* when it returns None or max_round messages have been exchanged.
SelectSpeaker ==
    /\ calc.fn = "initiate_chat" /\ calc.pc = "select"
    /\ LET next == IF Len(calc.messages) >= MAX_CHAT_ROUNDS THEN None
                   ELSE SpeakerSelection(calc.last_speaker, calc.messages)
       IN calc' = [calc EXCEPT !.selected = next,
                               !.pc = IF next = None THEN "over" ELSE "reply"]
    /\ UNCHANGED <<event_counter, store_available, store, entry, application_id,
                   gen, events, last_event_id, consumer, collected, frames,
                   response, connected, client_id, active_connections, faults,
                   workflow, workflows, messages>>

\* The selected agent replies; its message joins the chat and it becomes the
\* last speaker.
AgentReply ==
    /\ calc.fn = "initiate_chat" /\ calc.pc = "reply"
    /\ \E content \in DecisionTexts :
        calc' = [calc EXCEPT
                    !.messages = Append(@, [name |-> AgentNames[calc.selected],
                                            content |-> content]),
                    !.last_speaker = AgentNames[calc.selected],
                    !.selected = None, !.pc = "select"]
    /\ UNCHANGED <<event_counter, store_available, store, entry, application_id,
                   gen, events, last_event_id, consumer, collected, frames,
                   response, connected, client_id, active_connections, faults,
                   workflow, workflows, messages>>

NextGroupChat == SelectSpeaker \/ AgentReply

SpecGroupChat == InitGroupChat /\ [][NextGroupChat]_vars

\* ======================================================== properties
\* The eight stages of a workflow, in pipeline order.
PipelineStages ==
    <<"MedicalAnalyzer", "RiskAssessmentML", "MedicalReviewer", "FraudDetector",
      "RiskAssessor", "PremiumCalculator", "DecisionMaker", "ReportGenerator">>

AgentStages ==
    {"MedicalReviewer", "FraudDetector", "RiskAssessor", "PremiumCalculator",
     "DecisionMaker"}

IsStage(e) == e.agent_name # "System"
IsExit(e) == e.status \in {COMPLETED, ERROR}

\* Number of events of evs[1..k] that satisfy Test.
CountUpTo(evs, k, Test(_)) == Cardinality({j \in 1..k : Test(evs[j])})

IsEntry(e) == IsStage(e) /\ e.status = ACTIVE
IsStageCompleted(e) == IsStage(e) /\ e.status = COMPLETED
IsError(e) == e.status = ERROR

Last(evs) == evs[Len(evs)]

\* The slot's workflow has ended with the System COMPLETED event.
EndedSuccessfully(r) ==
    /\ Len(events[r]) > 0
    /\ Last(events[r]) = Event("System", COMPLETED)

\* ----------------------------------------------------------------- C1
\* C1: in every workflow the n-th stage entered (ACTIVE event) is the n-th stage
\* of the fixed order MedicalAnalyzer .. ReportGenerator, so no stage is skipped,
\* reordered or entered twice, and a stage other than the first is entered only
\* right after the exit event (COMPLETED or ERROR) of the stage before it.
C1_StagesEnteredInFixedOrder ==
    \A r \in Requests :
        LET evs == events[r] IN
        \A k \in DOMAIN evs :
            IsEntry(evs[k]) =>
                LET n == CountUpTo(evs, k, IsEntry) IN
                /\ n <= Len(PipelineStages)
                /\ evs[k].agent_name = PipelineStages[n]
                /\ n > 1 => /\ k > 1
                            /\ IsExit(evs[k - 1])
                            /\ evs[k - 1].agent_name = PipelineStages[n - 1]

\* A workflow has entered all eight stages, one of them left with ERROR.
C1_Witness ==
    \E r \in Requests :
        /\ CountUpTo(events[r], Len(events[r]), IsEntry) = Len(PipelineStages)
        /\ CountUpTo(events[r], Len(events[r]), IsError) = 1

WorkflowOver(r) ==
    /\ entry[r] # None
    /\ Len(events[r]) > 0
    /\ ~InFlight(r)

\* Every ACTIVE event of a stage is the only one of that stage and, unless it is
\* the latest event, the event after it is the exit event of the same stage;
\* every exit event comes right after the ACTIVE event of its stage.
StagesWellFormed(evs) ==
    \A k \in DOMAIN evs :
        /\ IsEntry(evs[k]) =>
            /\ \A j \in DOMAIN evs : IsEntry(evs[j]) /\ evs[j].agent_name = evs[k].agent_name => j = k
            /\ k < Len(evs) => /\ IsExit(evs[k + 1])
                               /\ evs[k + 1].agent_name = evs[k].agent_name
        /\ IsStage(evs[k]) /\ IsExit(evs[k]) =>
            /\ k > 1
            /\ evs[k - 1] = Event(evs[k].agent_name, ACTIVE)

\* C3: every stage a workflow enters has exactly one ACTIVE event, followed by
\* exactly one exit event of the same stage (COMPLETED or ERROR) with no event
\* of another stage in between: the events are well formed at any time, and
\* once no event will follow, no stage is left entered without its exit event.
C3_EveryEnteredStageExitsOnce ==
    \A r \in Requests :
        /\ StagesWellFormed(events[r])
        /\ WorkflowOver(r) => ~IsEntry(Last(events[r]))

\* ----------------------------------------------------------------- C4
\* Number of COMPLETED events of the eight stages in the slot's workflow.
StagesCompleted(r) == CountUpTo(events[r], Len(events[r]), IsStageCompleted)

\* Number of ERROR events in the slot's workflow.
StagesFailed(r) == CountUpTo(events[r], Len(events[r]), IsError)

C5_EventIdCounterIncreases ==
    [][\A r \in Requests :
          Len(events'[r]) = Len(events[r]) + 1 =>
              /\ last_event_id'[r] > last_event_id[r]
              /\ last_event_id'[r] > event_counter]_vars

\* Two workflows in flight whose events interleave: the latest event of one lies
\* between two events of the other.
C5_Witness ==
    \E r, q \in Requests :
        /\ r # q /\ InFlight(r) /\ InFlight(q)
        /\ Len(events[r]) >= 2 /\ Len(events[q]) >= 2
        /\ last_event_id[q] = event_counter
        /\ last_event_id[r] = event_counter - 1

\* ----------------------------------------------------------------- C6
\* C6: each workflow has an event counter of its own, so the counter in the
\* event_id of a workflow's k-th event is k whatever other workflows ran before
\* it or run beside it.
C6_CounterIsPerWorkflow ==
    \A r \in Requests :
        Len(events[r]) > 0 => last_event_id[r] = Len(events[r])

\* ----------------------------------------------------------------- C7
IsTerminalFrame(f) == f.type \in {"complete", "error"}

\* The frames of a response without its terminal frame.
FrameBody(fs) ==
    IF Len(fs) > 0 /\ IsTerminalFrame(Last(fs)) THEN SubSeq(fs, 1, Len(fs) - 1) ELSE fs

\* C7: the frames of a POST /process/stream response are the frames of the
\* workflow's events, one per event in production order, followed by at most one
\* terminal frame, which is last; a response that has ended has exactly one,
\* 'complete' if the generator finished and 'error' if it raised.
C7_StreamFramesThenOneTerminal ==
    \A r \in Requests :
        entry[r] = "stream" =>
            LET fs == frames[r]
                body == FrameBody(fs) IN
            /\ body = [k \in 1..Len(events[r]) |-> EventFrame(events[r][k])]
            /\ Len(fs) > Len(body) <=> consumer[r] = "done"
            /\ consumer[r] = "done" =>
                /\ Last(fs).type = "complete" <=> gen[r].pc = "finished"
                /\ Last(fs).type = "error" <=> gen[r].pc = "raised"

\* A streamed response that ended with the 'error' frame after its event frames.
C7_Witness ==
    \E r \in Requests :
        /\ entry[r] = "stream" /\ consumer[r] = "done"
        /\ Len(frames[r]) >= 4
        /\ Last(frames[r]) = TypeFrame("error")

\* ----------------------------------------------------------------- C8
\* C8: when the client of a streaming response or of a WebSocket session has
\* gone and the handler has ended, the workflow it had started has run to its
\* terminal event, and its workflow result is in the store when the store is
\* available and no write failed.
C8_DisconnectOnlyDetaches ==
    \A r \in Requests :
        /\ entry[r] \in {"stream", "ws"} /\ ~connected[r]
        /\ consumer[r] \in {"aborted", "closed"}
        /\ Len(events[r]) > 0
        => /\ gen[r].pc \in {"finished", "raised"}
           /\ gen[r].pc = "finished" /\ store_available /\ faults <= 1 =>
                \E d \in store : /\ d.document_type = "workflow_result"
                                 /\ d.workflow = workflow[r]

\* ----------------------------------------------------------------- C9
\* C9: after the workflow of a WebSocket 'process' action raised, the client
\* still being connected, an error message has been sent on the socket and the
\* session is open (the handler has not ended).
C9_WsErrorKeepsSessionOpen ==
    \A r \in Requests :
        entry[r] = "ws" /\ connected[r] /\ gen[r].pc = "raised" =>
            /\ consumer[r] # "closed"
            /\ active_connections[client_id[r]] = r
            /\ \E k \in DOMAIN frames[r] : frames[r][k] = TypeFrame("error")

\* ---------------------------------------------------------------- C10
\* The store holds the workflow result of the slot's workflow.
ResultStored(r) ==
    \E d \in store : d.document_type = "workflow_result" /\ d.workflow = workflow[r]

\* C10: the outcome of a request is a function of the workflow's events alone,
\* whether or not the store is available and whether or not its writes succeed:
\* POST /process answers 200 with the result built from the events when the
\* workflow ended with the System COMPLETED event, and 500 only after a stage's
\* ERROR event; POST /process/stream ends with 'complete' in the first case and
\* with 'error' only after a stage's ERROR event.
C10_OutcomeIndependentOfStore ==
    \A r \in Requests :
        consumer[r] = "done" =>
            /\ entry[r] = "process" =>
                IF EndedSuccessfully(r)
                THEN response[r] =
                        [status |-> 200, n_events |-> Len(events[r]),
                         agent_outputs |-> ExtractAgentOutputs(events[r]),
                         final_decision |-> FinalReport(events[r])]
                ELSE /\ response[r].status = 500
                     /\ Len(events[r]) > 0 /\ IsError(Last(events[r]))
            /\ entry[r] = "stream" =>
                IF EndedSuccessfully(r)
                THEN Last(frames[r]) = TypeFrame("complete")
                ELSE /\ Last(frames[r]) = TypeFrame("error")
                     /\ Len(events[r]) > 0 /\ IsError(Last(events[r]))

\* A POST /process answered 200 for a workflow without a failed stage while the
\* store was available and the write of its result failed.
C10_Witness ==
    \E r \in Requests :
        /\ entry[r] = "process" /\ consumer[r] = "done"
        /\ response[r].status = 200
        /\ store_available /\ ~ResultStored(r)

\* ---------------------------------------------------------------- C11
\* No store write has failed and no client has gone: every fault so far is a
\* failed stage of the slot's workflow.
OnlyStageFaults(r) == faults = StagesFailed(r)

\* The store holds the output of the stage of the completed event ev of the
\* slot's workflow: as an agent_result, or inside the workflow_result.
StageOutputStored(r, ev) ==
    \E d \in store :
        /\ d.workflow = workflow[r]
        /\ \/ d.document_type = "agent_result"
              /\ d.agent_name = ev.agent_name /\ d.status = COMPLETED
           \/ d.document_type = "workflow_result"
              /\ ev.agent_name \in d.agent_outputs

\* C11: when a workflow has ended in ERROR (its generator raised) with the store
\* available and no write failed, the store holds the output of every stage
\* that completed before the failure, whichever entry point ran the workflow.
C11_CompletedStagesPersistedOnError ==
    \A r \in Requests :
        /\ entry[r] \in {"process", "stream", "ws"}
        /\ gen[r].pc = "raised"
        /\ store_available /\ OnlyStageFaults(r)
        => \A k \in DOMAIN events[r] :
              IsStageCompleted(events[r][k]) => StageOutputStored(r, events[r][k])

\* ---------------------------------------------------------------- C12
\* C12: once a workflow started by POST /process or POST /process/stream has
\* completed successfully with the store available and no write failed, the
\* store holds the comprehensive_report of that workflow.
C12_ReportStoredOnSuccess ==
    \A r \in Requests :
        /\ entry[r] \in {"process", "stream"}
        /\ consumer[r] = "done" /\ EndedSuccessfully(r)
        /\ store_available /\ OnlyStageFaults(r)
        => \E d \in store :
              /\ d.document_type = "comprehensive_report"
              /\ d.application_id = application_id[r]
              /\ d.workflow = workflow[r]

\* ---------------------------------------------------------------- C13
\* C13: the workflow_result stored for a workflow holds that workflow's events,
\* its agent outputs (the outputs of its completed stages) and its final
\* decision (the report of its ReportGenerator), whichever entry point ran it.
C13_WorkflowResultIsComplete ==
    \A r \in Requests :
        \A d \in store :
            /\ entry[r] # None
            /\ d.document_type = "workflow_result"
            /\ d.workflow = workflow[r]
            => /\ d.n_events = Len(events[r])
               /\ d.agent_outputs = ExtractAgentOutputs(events[r])
               /\ d.final_decision = FinalReport(events[r])

\* ---------------------------------------------------------------- C14
\* The reports of app in the store.
ReportsOf(app) == {d \in store : IsReportOf(d, app)}

\* C14: GET /reports/{appId} answers 503 exactly when the store is unavailable;
\* with the store available it answers 404 only if the store holds no
\* comprehensive_report of appId, and otherwise 200 with the most recently
\* created report of appId.
C14_ReportsStatusCodes ==
    [][\A r \in Requests :
          entry[r] = None /\ entry'[r] = "reports" =>
              LET app == application_id'[r]
                  res == response'[r] IN
              /\ res.status = 503 <=> ~store_available
              /\ store_available =>
                    IF ReportsOf(app) = {}
                    THEN res.status = 404
                    ELSE /\ res.status = 200
                         /\ res.report \in ReportsOf(app)
                         /\ \A d \in ReportsOf(app) :
                               d.created_at <= res.report.created_at]_vars

C16_HighLoadingIsDeclined ==
    /\ calc.fn = "_generate_report" /\ calc.returned
    /\ calc.result.raised = None
    /\ calc.loading_result.present
    /\ calc.loading_result.total_loading_percentage > 250
    => /\ calc.result.decision = DECLINED
       /\ calc.result.premium_calculations = <<>>

\* ---------------------------------------------------------------- C17
\* C17: every PremiumCalculation the premium calculator returns for an
\* Accidental Death Benefit cover has a base premium of sumAssured x 0.0002 of
\* a requested cover of that type, a final premium equal to the base premium
\* and a total loading of 0%, whether or not an agent total premium was parsed.
C17_AccidentalDeathIsNotLoaded ==
    /\ calc.fn = "calculate_premiums" /\ calc.returned
    /\ calc.result.raised = None
    => \A k \in DOMAIN calc.result.premiums :
          LET p == calc.result.premiums[k] IN
          p.cover_type = "Accidental Death Benefit" =>
              /\ \E j \in DOMAIN calc.covers_requested :
                    /\ calc.covers_requested[j].coverType = p.cover_type
                    /\ p.base_premium = calc.covers_requested[j].sumAssured * 2 * 100
              /\ p.final_premium = p.base_premium
              /\ p.total_loading_percentage = Percent(0)

\* ---------------------------------------------------------------- C18
\* The medical loading of the claimed precedence rule.
ClaimedLoading(decision_details, risk_assessment, loading_result) ==
    CASE loading_result.present -> loading_result.total_loading_percentage
      [] ~loading_result.present /\ decision_details.total_premium > 0 ->
            decision_details.medical_loading_percentage
      [] ~loading_result.present /\ decision_details.total_premium = 0
         /\ decision_details.medical_loading_percentage > 0 ->
            decision_details.medical_loading_percentage
      [] ~loading_result.present /\ decision_details.total_premium = 0
         /\ decision_details.medical_loading_percentage = 0
         /\ risk_assessment.present ->
            LET l == (10 - risk_assessment.medical_risk) * 15 IN
            IF l < 0 THEN 0 ELSE IF l > 200 THEN 200 ELSE l
      [] OTHER -> 25

\* C18: every PremiumCalculation the premium calculator returns for a cover
\* other than Accidental Death Benefit has the base premium sumAssured x
\* base_rate[coverType] of a requested cover of that type and the final premium
\* basePremium x (1 + L/100), L being the loading of the precedence rule.
C18_FinalPremiumIsLoadedBasePremium ==
    /\ calc.fn = "calculate_premiums" /\ calc.returned
    /\ calc.result.raised = None
    => LET L == ClaimedLoading(calc.decision_details, calc.risk_assessment,
                               calc.loading_result) IN
       \A k \in DOMAIN calc.result.premiums :
          LET p == calc.result.premiums[k] IN
          p.cover_type # "Accidental Death Benefit" =>
              /\ \E j \in DOMAIN calc.covers_requested :
                    /\ calc.covers_requested[j].coverType = p.cover_type
                    /\ p.base_premium =
                          calc.covers_requested[j].sumAssured
                              * BaseRate(p.cover_type) * 100
              /\ p.final_premium * 100 = p.base_premium * (100 + L)

\* ---------------------------------------------------------------- C19
\* The maximum of a group plus factor x the sum of its other members, in tenths
\* of a percent, the factor in tenths.
MaxPlusRest(percentages, factor) ==
    MaxOf(percentages) * 10
        + (SumOf(percentages) - MaxOf(percentages)) * factor

\* The severity-weighted rule, in tenths of a percent.
SeverityWeighted(individual_loadings) ==
    LET critical == PercentagesOf(individual_loadings, CRITICAL)
        severe == PercentagesOf(individual_loadings, SEVERE)
        moderate == PercentagesOf(individual_loadings, MODERATE)
        mild == PercentagesOf(individual_loadings, MILD) IN
    (CASE critical = <<>> -> 0
       [] OTHER -> MaxPlusRest(critical, 5))
    + (CASE severe = <<>> -> 0
         [] severe # <<>> /\ critical # <<>> -> SumOf(severe) * 3
         [] OTHER -> MaxPlusRest(severe, 4))
    + (CASE moderate = <<>> -> 0
         [] moderate # <<>> /\ (critical # <<>> \/ severe # <<>>) ->
                SumOf(moderate) * 2
         [] OTHER -> MaxPlusRest(moderate, 3))
    + SumOf(mild) * 2

\* C19: the combined total before the age adjustment of any list of loadings is
\* the severity-weighted total: the highest non-empty group of CRITICAL, SEVERE,
\* MODERATE counts its maximum plus 0.5, 0.4, 0.3 x the sum of its other
\* members, a SEVERE group below a CRITICAL one 0.3 x its sum, a MODERATE group
\* below a higher one 0.2 x its sum, MILD 0.2 x its sum; an empty list gives 0.
C19_CombinedLoadingIsSeverityWeighted ==
    /\ calc.fn = "_calculate_combined_loading" /\ calc.returned
    => /\ calc.result.before_age = SeverityWeighted(calc.individual_loadings)
       /\ calc.individual_loadings = <<>> => calc.result.total = 0

\* ---------------------------------------------------------------- C20
\* C20: a Decision-Maker text that consists of one of the decline keywords
\* DECLINE, DECLINED, REJECT, UNACCEPTABLE, DENY, in any letter case, and so
\* states no other decision, is parsed as DECLINED.
C20_DeclineKeywordsParseAsDeclined ==
    /\ calc.fn = "extract_decision_from_text" /\ calc.returned
    /\ Upper(calc.decision_text) \in DECLINE_PATTERNS
    => calc.result.decision = DECLINED


\* ---------------------------------------------------------------- C21
\* C21: round trip: the text 'Underwriting decision: <LITERAL>' the system
\* renders for a decision d, which holds no other decision keyword, is parsed
\* back as d, for each of the four decisions.
C21_RenderedDecisionParsesBack ==
    \A d \in UnderwritingDecisions :
        /\ calc.fn = "extract_decision_from_text" /\ calc.returned
        /\ calc.decision_text = RenderDecision(d)
        => calc.result.decision = d

\* ---------------------------------------------------------------- C22
\* C22: for every application the request schema accepts, also one that omits
\* the income or gives an annual income of 0, the risk engine returns a result
\* without raising.
C22_EnginesNeverRaise ==
    /\ calc.fn = "assess_risk" /\ calc.returned
    => calc.result.raised = None

\* ---------------------------------------------------------------- C23
\* The base b of a decision and the adjustment a3, in hundredths.
ConfidenceBase ==
    CASE calc.final_decision = AUTO_APPROVED -> 95
      [] calc.final_decision = MANUAL_REVIEW -> 80
      [] calc.final_decision = ADDITIONAL_REQUIREMENTS -> 70
      [] calc.final_decision = DECLINED -> 90

ConfidenceA3 ==
    IF \/ calc.risk_score > 80 /\ calc.final_decision = AUTO_APPROVED
       \/ calc.risk_score < 30 /\ calc.final_decision = DECLINED
    THEN 5 ELSE 0

\* C23 as stated: the confidence score is clamp(b + a1 + a2 + a3, 0.5, 1.0) with
\* a1 = +0.05 if there is a critical alert or no abnormal value, a2 = -0.10 if
\* there are more than 3 abnormal values, each applied on its own.
C23_ConfidenceIndependentAdjustments ==
    /\ calc.fn = "calculate_confidence_score" /\ calc.returned
    => LET a1 == IF calc.critical_alerts > 0 \/ calc.abnormal_values = 0
                 THEN 5 ELSE 0
           a2 == IF calc.abnormal_values > 3 THEN -10 ELSE 0
           x == ConfidenceBase + a1 + a2 + ConfidenceA3 IN
       calc.result = IF x > 100 THEN 100 ELSE IF x < 50 THEN 50 ELSE x

\* C23 (amended): the confidence score is clamp(b + a1 + a2 + a3, 0.5, 1.0) with
\* a1 = +0.05 if there is a critical alert or no abnormal value, and a2 = -0.10
\* only if there is no critical alert and there are more than 3 abnormal
\* values.
C23_ConfidenceExclusiveAdjustments ==
    /\ calc.fn = "calculate_confidence_score" /\ calc.returned
    => LET a1 == IF calc.critical_alerts > 0 \/ calc.abnormal_values = 0
                 THEN 5 ELSE 0
           a2 == IF calc.critical_alerts = 0 /\ calc.abnormal_values > 3
                 THEN -10 ELSE 0
           x == ConfidenceBase + a1 + a2 + ConfidenceA3 IN
       calc.result = IF x > 100 THEN 100 ELSE IF x < 50 THEN 50 ELSE x

\* A score was calculated for findings with a critical alert and more than 3
\* abnormal values.
C23_Witness ==
    /\ calc.fn = "calculate_confidence_score" /\ calc.returned
    /\ calc.critical_alerts > 0 /\ calc.abnormal_values > 3
    /\ calc.result = ConfidenceBase + 5

\* ---------------------------------------------------------------- C24
\* A POST /process/stream response that has ended for a workflow all of whose
\* stages succeeded.
StreamedAllStagesOk(r) ==
    /\ entry[r] = "stream" /\ consumer[r] = "done"
    /\ EndedSuccessfully(r) /\ StagesFailed(r) = 0

\* A frame of a WorkflowEvent is appended to the response of slot r.
EventFrameSent(r) ==
    /\ entry[r] = "stream"
    /\ Len(frames'[r]) = Len(frames[r]) + 1
    /\ Last(frames'[r]).type = "event"

\* C24 as stated: a POST /process/stream run in which every stage succeeds
\* delivers exactly 9 WorkflowEvent frames before the terminal frame.
C24_NineFramesBeforeTerminal ==
    \A r \in Requests :
        StreamedAllStagesOk(r) => Len(FrameBody(frames[r])) = 9

\* C24 (amended): a POST /process/stream run in which every stage succeeds
\* delivers exactly 18 WorkflowEvent frames before the terminal frame (the
\* System start, an ACTIVE and a COMPLETED frame for each of the eight stages,
\* the System completion), and the event_id of every frame sent is greater
\* than that of the frame before it.
C24_EighteenFramesIncreasingIds ==
    /\ [](\A r \in Requests :
            StreamedAllStagesOk(r) => Len(FrameBody(frames[r])) = 18)
    /\ [][\A r \in Requests :
            EventFrameSent(r) => last_event_id'[r] > last_event_id[r]]_vars

\* A streamed response of a workflow without a failed stage has ended with the
\* 'complete' frame.
C24_Witness ==
    \E r \in Requests :
        /\ StreamedAllStagesOk(r)
        /\ Len(frames[r]) = 19
        /\ Last(frames[r]) = TypeFrame("complete")

\* ---------------------------------------------------------------- C25
\* The hemoglobin value of the analysed report is present and below 10 g/dL.
LowHemoglobin ==
    /\ calc.report.extraction_successful
    /\ calc.report.completeBloodCount.present
    /\ calc.report.completeBloodCount.hemoglobin.present
    /\ ~calc.report.completeBloodCount.hemoglobin.null
    /\ calc.report.completeBloodCount.hemoglobin.value < 10

\* C25: the analysis of a report adds the risk factor 'anemia' exactly when a
\* hemoglobin value is present and below 10 g/dL; a completeBloodCount block
\* without a hemoglobin value adds no 'anemia' factor (and so no 0.10
\* penalty).
C25_AnemiaOnlyForLowHemoglobin ==
    /\ calc.fn = "analyze_medical_data" /\ calc.returned
    /\ calc.result.raised = None
    => (\E k \in DOMAIN calc.result.risk_factors :
            calc.result.risk_factors[k] = "anemia") <=> LowHemoglobin

\* ---------------------------------------------------------------- C26
\* The loadings hold a SEVERE or CRITICAL condition of the family of words.
SevereInFamily(words) ==
    \E k \in DOMAIN calc.loadings :
        /\ ContainsAny(Lower(calc.loadings[k].condition), words)
        /\ calc.loadings[k].severity \in {SEVERE, CRITICAL}

\* The result holds the exclusion entry and requires additional tests.
Excluded(exclusion) ==
    /\ \E k \in DOMAIN calc.result.exclusions :
          calc.result.exclusions[k] = exclusion
    /\ calc.result.requires_additional_tests

\* C26: for each of the families diabetes, cardiac, liver and kidney, if the
\* loadings hold a condition of the family whose severity is SEVERE or
\* CRITICAL, the result holds the exclusion entry of that family and
\* requires_additional_tests is true.
C26_SevereConditionIsExcluded ==
    /\ calc.fn = "_generate_recommendations_and_exclusions" /\ calc.returned
    => /\ SevereInFamily(DIABETES_WORDS) =>
            Excluded("Diabetes-related complications exclusion for Critical Illness coverage")
       /\ SevereInFamily(CARDIAC_WORDS) =>
            Excluded("Pre-existing cardiac condition exclusion")
       /\ SevereInFamily(LIVER_WORDS) => Excluded("Liver disease exclusion")
       /\ SevereInFamily(KIDNEY_WORDS) => Excluded("Kidney disease exclusion")

\* ---------------------------------------------------------------- C27
\* The reasoning of a report has been built.
ReasoningReturned == calc.fn = "build_reasoning" /\ calc.returned

StartsWith(list, prefix) ==
    /\ Len(list) >= Len(prefix)
    /\ SubSeq(list, 1, Len(prefix)) = prefix

FirstTwo(list) == SubSeq(list, 1, IF Len(list) < 2 THEN Len(list) ELSE 2)

\* C27: when the Decision-Maker's text has lines that hold DECISION,
\* RECOMMENDATION, CONCLUSION or RATIONALE, the report's reasoning starts with
\* the first two of them, and the template is the reasoning only when the
\* agents' texts gave no line.
C27_ReasoningStartsWithDecisionLines ==
    ReasoningReturned =>
        LET key_points == KeyPoints(calc.agent_analyses.decision_maker)
            template == FallbackReasoning(calc.result.decision,
                            [total_premium |-> calc.premium_info.total_premium])
        IN /\ key_points # <<>> =>
                StartsWith(calc.result.reasoning, FirstTwo(key_points))
           /\ calc.result.reasoning = template => key_points = <<>>

\* ---------------------------------------------------------------- C28
\* The names of the agents that have spoken after the Underwriting Manager's
\* case message, in the order they spoke.
AgentsSpoken ==
    [i \in 1..(Len(calc.messages) - 1) |-> calc.messages[i + 1].name]

ChatOrder ==
    <<"MedicalReviewer", "FraudDetector", "RiskAssessor", "PremiumCalculator",
      "DecisionMaker">>

\* C28: in the V2 group chat, started by the Underwriting Manager's case
\* message and driven by speaker_selection, the agents speak in the order
\* MedicalReviewer, FraudDetector, RiskAssessor, PremiumCalculator,
\* DecisionMaker, each once, and the chat ends after DecisionMaker.
C28_AgentsSpeakInWorkflowOrder ==
    calc.fn = "initiate_chat" =>
        /\ Len(AgentsSpoken) <= Len(ChatOrder)
        /\ AgentsSpoken = SubSeq(ChatOrder, 1, Len(AgentsSpoken))
        /\ calc.pc = "over" => AgentsSpoken = ChatOrder

\* ---------------------------------------------------------------- C29
\* The workflow of WebSocket session r, whose client is connected, yields an
\* event in this step.
WsEventYielded(r) ==
    /\ entry[r] = "ws" /\ connected[r]
    /\ Len(events'[r]) = Len(events[r]) + 1

\* C29: every event of a workflow started by a 'process' message on a
\* WebSocket session is delivered to that session's own socket and to no other
\* session's socket, also when two connections use the same clientId or
\* another connection with that clientId connects or disconnects while the
\* workflow runs.
C29_EventsGoToOwnSocket ==
    [][\A r \in Requests :
        WsEventYielded(r) =>
            /\ frames'[r] = Append(frames[r], EventFrame(Last(events'[r])))
            /\ \A q \in Requests \ {r} : frames'[q] = frames[q]]_vars

\* ---------------------------------------------------------------- C30
\* C30: every report whose decision is not DECLINED has exactly one
\* PremiumCalculation for each cover of coversRequested, in the order of the
\* request, whether or not an agent total premium was parsed and whatever the
\* coverType is.
C30_OnePremiumPerCoverInOrder ==
    /\ calc.fn = "_generate_report" /\ calc.returned
    /\ calc.result.raised = None
    /\ calc.result.decision # DECLINED
    => /\ Len(calc.result.premium_calculations) = Len(calc.covers_requested)
       /\ \A k \in DOMAIN calc.covers_requested :
            calc.result.premium_calculations[k].cover_type
                = calc.covers_requested[k].coverType

====
